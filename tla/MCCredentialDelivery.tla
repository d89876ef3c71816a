------------------------- MODULE MCCredentialDelivery -------------------------
(***************************************************************************)
(* Two payments, one of them without an email address, and two workers.    *)
(***************************************************************************)
EXTENDS CredentialDelivery

CONSTANTS p1, p2
MCPayments == {p1, p2}
MCHasEmail == {p1}
==============================================================================
