----------------------------- MODULE VoucherSale -----------------------------
(***************************************************************************)
(* What the purchase of a voucher promises, with no web request, webhook   *)
(* or database in sight: a payment is either confirmed by the provider or  *)
(* not, a confirmed payment may be given one voucher that nobody else has, *)
(* and what was sold is never taken back or exchanged.  VoucherFulfilment  *)
(* implements this specification (src/apps/payments).                      *)
(***************************************************************************)
CONSTANTS Payments,   \* payment references
          Vouchers,   \* access codes that can be generated
          NoVoucher   \* the value of PaymentTransaction.voucher when NULL

VARIABLES paid,       \* the payments the provider confirms for the full amount
          sold        \* the voucher each payment was exchanged for

saleVars == <<paid, sold>>

Unsold == {v \in Vouchers : \A p \in Payments : sold[p] # v}

SaleInit == /\ paid = {}
            /\ sold = [p \in Payments |-> NoVoucher]

\* The provider confirms a charge.
Confirm(p) == /\ paid' = paid \cup {p}
              /\ UNCHANGED sold

\* A confirmed payment is exchanged, once, for a voucher of its own.
Exchange(p) == /\ p \in paid
               /\ sold[p] = NoVoucher
               /\ \E v \in Unsold : sold' = [sold EXCEPT ![p] = v]
               /\ UNCHANGED paid

SaleNext == \E p \in Payments : Confirm(p) \/ Exchange(p)

SaleSpec == SaleInit /\ [][SaleNext]_saleVars
==============================================================================
