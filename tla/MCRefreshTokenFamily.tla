------------------------ MODULE MCRefreshTokenFamily ------------------------
(* Small instances of RefreshTokenFamily for TLC: one login of one application. *)
EXTENDS RefreshTokenFamily, TLC

CONSTANTS web, mobile, login

\* A login of one application, online or offline.
LoginRow(offline, life, maximum) ==
    [parent |-> NoSession, family |-> login, client |-> web, offline |-> offline,
     expires |-> AccessLife, refreshExpires |-> life, offlineMax |-> maximum]

OnlineRows == login :> LoginRow(FALSE, RefreshLife, 0)

Requests == Permutations(Request)
=============================================================================
