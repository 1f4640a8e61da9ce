---------------------------- MODULE MCTokenRefresh ----------------------------
(***************************************************************************)
(* Instances of TokenRefresh for TLC.                                      *)
(***************************************************************************)
EXTENDS TokenRefresh

CONSTANTS b1, r1
====
