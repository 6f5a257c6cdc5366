----------------------------- MODULE MCRequestPage -----------------------------
(***************************************************************************)
(* Instances of RequestPage for TLC: one field, two values of which the    *)
(* controls reject one, and two calls at a time.                           *)
(***************************************************************************)
EXTENDS RequestPageClaims, TLC

CONSTANTS en, a, b, c1, c2
================================================================================
