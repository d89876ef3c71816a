------------------------- MODULE MCVoucherFulfilment -------------------------
(***************************************************************************)
(* Small instances of VoucherFulfilment.                                   *)
(***************************************************************************)
EXTENDS VoucherFulfilment, TLC

CONSTANTS p1, p2, e1, e2, e3, v1, v2, v3, r1, r2

MCPayments == {p1, p2}
MCEvents == {e1, e2, e3}
\* p1 is notified under two event ids, p2 under one.
MCEventRef == (e1 :> p1) @@ (e2 :> p1) @@ (e3 :> p2)
MCEmailed == {p1}
\* One voucher more than there are payments, so that a second one can be issued.
MCVouchers == {v1, v2, v3}
MCRequests == {r1, r2}

\* Liveness is checked without symmetry: p2's events are lost on their way, and it
\* is sold on request only.
LiveEvents == {e1, e2}
LiveEventRef == (e1 :> p1) @@ (e2 :> p1)
LiveVouchers == {v1, v2}

Interchangeable == Permutations(MCVouchers) \cup Permutations(MCRequests)
==============================================================================
