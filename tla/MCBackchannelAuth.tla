------------------------- MODULE MCBackchannelAuth -------------------------
(***************************************************************************)
(* Two authentication requests of one client for one user.                 *)
(***************************************************************************)
EXTENDS BackchannelAuth, TLC

CONSTANTS a1, a2

\* Two requests for different scopes.
TwoScopes == a1 :> {"openid", "profile"} @@ a2 :> {"openid", "email"}
AskNothing == a1 :> {} @@ a2 :> {}

Symmetry == Permutations(Poll) \cup Permutations(Decision)
=============================================================================
