------------------------ MODULE MCContributionService ------------------------
(***************************************************************************)
(* Instances of ContributionService for TLC.  Keys k1 and k2 share the     *)
(* files of bundle b, one per locale; the bundle c of key k3 is configured *)
(* for the default locale only.                                            *)
(***************************************************************************)
EXTENDS ContributionService, TLC

CONSTANTS k1, k2, k3, b, c, en, fr, x, y, h1, h2

MCBundleOf == k1 :> b @@ k2 :> b @@ k3 :> c
MCGroupLocales == b :> {en, fr} @@ c :> {en}

L(e, f) == en :> e @@ fr :> f

\* A first content, then k2 is added and k3 changed.
MC0 == k1 :> L(x, x) @@ k2 :> NoLabels @@ k3 :> L(x, NoValue)
MC1 == k1 :> L(x, x) @@ k2 :> L(x, NoValue) @@ k3 :> L(y, NoValue)
MCSourceMaps == {MC0, MC1}

\* Labels of two keys, and of a locale the group of k3 is not configured for;
\* a label that is cleared.
MCLabels  == [EmptyMap EXCEPT ![k1][fr] = y, ![k2][en] = y, ![k3][fr] = y]
MCCleared == [EmptyMap EXCEPT ![k1][en] = Blank]
MCProposals == {MCLabels, MCCleared}

MCAuthors == 0 .. MaxContribution

HandlerSymmetry == Permutations({h1, h2})
==============================================================================
