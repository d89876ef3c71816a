-------------------------- MODULE MCVoucherLifecycle --------------------------
(***************************************************************************)
(* Two vouchers and two usernames, so that one voucher can take over the   *)
(* name another gave up; one login and one manager, each of which can hold *)
(* a voucher that the other, or the timer, changes.  Two ticks let a login *)
(* activate again what has been listed as overdue.                         *)
(***************************************************************************)
EXTENDS VoucherLifecycle
==============================================================================
