-------------------------- MODULE MCAccountSessions --------------------------
(***************************************************************************)
(* Two requests at once on an account with three passwords in its life.    *)
(* Three refresh tokens are three sessions, or one that is refreshed twice *)
(* or by both requests.  One address: a link already changes with the      *)
(* password, and no property tells addresses apart.                        *)
(***************************************************************************)
EXTENDS AccountSessions, TLC

Interchangeable == Permutations(Requests) \cup Permutations(Tokens)
==============================================================================
