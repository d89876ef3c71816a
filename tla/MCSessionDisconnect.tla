------------------------- MODULE MCSessionDisconnect -------------------------
(***************************************************************************)
(* Two requests of one tenant with one key and two payloads, two routers   *)
(* of the tenant and one of another tenant that can all be given the same  *)
(* address, and a session on any of them.                                  *)
(***************************************************************************)
EXTENDS SessionDisconnect, TLC

CONSTANTS tA, tB, d1, d2, d3, s1

MCDeviceOf == (d1 :> tA) @@ (d2 :> tB) @@ (d3 :> tA)
MCSubject == [k \in Keys |-> [tenant |-> tA, session |-> s1]]
==============================================================================
