-------------------------- MODULE MCRouterOnboarding --------------------------
(***************************************************************************)
(* One router with one key, one address of its own and two secrets, other  *)
(* routers that register at its addresses, two managers, one worker and    *)
(* one internal request.                                                   *)
(***************************************************************************)
EXTENDS RouterOnboarding, TLC

Interchangeable == Permutations(Managers) \cup Permutations(Secrets)
==============================================================================
