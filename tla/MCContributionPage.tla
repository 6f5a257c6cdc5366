---------------------------- MODULE MCContributionPage ----------------------------
(***************************************************************************)
(* Instances of ContributionPage for TLC: two labels with two values, and  *)
(* two calls at a time.                                                    *)
(***************************************************************************)
EXTENDS ContributionPage, TLC

CONSTANTS l1, l2, a, b, f1, f2, c1, c2

MCIdOf == l1 :> f1 @@ l2 :> f2
MCMatches == {{l1}}
MCStored == l1 :> a @@ l2 :> a
MCReviewed == l1 :> b
===================================================================================
