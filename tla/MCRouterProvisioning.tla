------------------------- MODULE MCRouterProvisioning -------------------------
(***************************************************************************)
(* Two routers competing for one key, two workers, one internal request at *)
(* a time, and enough faults for an operation to be taken over and lost    *)
(* again.                                                                  *)
(***************************************************************************)
EXTENDS RouterProvisioning
==============================================================================
