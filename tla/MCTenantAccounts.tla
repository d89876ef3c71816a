--------------------------- MODULE MCTenantAccounts ---------------------------
(***************************************************************************)
(* The owner and one or two more accounts.  Five requests are the fewest   *)
(* in which a second account can join, be promoted and be removed while    *)
(* the owner steps down.                                                   *)
(***************************************************************************)
EXTENDS TenantAccounts, TLC

Interchangeable == Permutations(Requests)
==============================================================================
