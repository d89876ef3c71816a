----------------------------- MODULE MCAgentWallet -----------------------------
(***************************************************************************)
(* One agent, two fundings, two concurrent requests and one edit; a        *)
(* voucher costs half of a funding, and the balance cannot hold both.      *)
(***************************************************************************)
EXTENDS AgentWallet

MCAmounts == {2}
MCPrices == {1}
MCQuantities == {1}
================================================================================
