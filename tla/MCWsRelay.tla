------------------------------ MODULE MCWsRelay -------------------------------
(***************************************************************************)
(* Instances of WsRelay for TLC.                                           *)
(***************************************************************************)
EXTENDS WsRelay

CONSTANTS r1, r2
=============================================================================
