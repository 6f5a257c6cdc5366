------------------------------- MODULE MCListPage -------------------------------
(***************************************************************************)
(* Instances of ListPage for TLC: two items, and pages of one.  *)
(***************************************************************************)
EXTENDS ListPage, TLC

CONSTANTS i1, i2, c1, c2
=================================================================================
