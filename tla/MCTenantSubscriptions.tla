------------------------ MODULE MCTenantSubscriptions ------------------------
(***************************************************************************)
(* Three payments of one or two days, two parallel deliveries and a clock  *)
(* that outlives a trial and a first term.                                 *)
(***************************************************************************)
EXTENDS TenantSubscriptions, TLC

CONSTANTS short, long
PlanDays == short :> 1 @@ long :> 2
===============================================================================
