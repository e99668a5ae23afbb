------------------------ MODULE RefreshTokenContract ------------------------
(***************************************************************************)
(* What the token endpoint promises about refresh tokens, with no database *)
(* in sight: a token can be redeemed once, only while it is neither spent  *)
(* nor revoked, and redeeming it issues its one heir in the same instant.  *)
(* Any set of tokens can be revoked or forgotten at once.                  *)
(***************************************************************************)
CONSTANTS Root, Session

VARIABLES
    issued,  \* tokens the server knows
    heir,    \* pairs <<token, the token it was exchanged for>>
    spent,   \* redeemed tokens
    dead     \* revoked tokens

vars == <<issued, heir, spent, dead>>

Init ==
    /\ issued = Root
    /\ heir = {} /\ spent = {} /\ dead = {}

Redeem(t, n) ==
    /\ t \in issued /\ t \notin spent /\ t \notin dead
    /\ n \notin issued
    /\ issued' = issued \cup {n}
    /\ heir' = heir \cup {<<t, n>>}
    /\ spent' = spent \cup {t}
    /\ dead' = dead

Revoke(S) ==
    /\ dead' = dead \cup S
    /\ UNCHANGED <<issued, heir, spent>>

Forget(S) ==
    /\ issued' = issued \ S
    /\ heir' = {h \in heir : h[2] \notin S}
    /\ spent' = spent \ S
    /\ dead' = dead \ S

Next ==
    \/ \E t, n \in Session : Redeem(t, n)
    \/ \E S \in SUBSET issued : Revoke(S) \/ Forget(S)

Spec == Init /\ [][Next]_vars
=============================================================================
