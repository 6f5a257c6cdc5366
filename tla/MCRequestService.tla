---------------------------- MODULE MCRequestService ----------------------------
(***************************************************************************)
(* Instances of RequestService for TLC.  Keys k1 and k2 share the files of *)
(* bundle b, one per locale; the bundle c of key k3 is configured for the  *)
(* default locale only.                                                    *)
(***************************************************************************)
EXTENDS RequestServiceClaims, TLC

CONSTANTS k1, k2, k3, b, c, en, fr, x, y, h1, h2

MCBundleOf == k1 :> b @@ k2 :> b @@ k3 :> c
MCGroupLocales == b :> {en, fr} @@ c :> {en}

L(e, f) == en :> e @@ fr :> f

\* A first content; then k1 is updated and k2 added; then k1 leaves the default
\* file but not the other one, and k3 is changed.
MC0 == k1 :> L(x, x) @@ k2 :> NoLabels @@ k3 :> L(x, NoValue)
MC1 == k1 :> L(y, x) @@ k2 :> L(x, x) @@ k3 :> L(x, NoValue)
MC2 == k1 :> L(NoValue, x) @@ k2 :> L(x, x) @@ k3 :> L(y, NoValue)
MCSourceMaps == {MC0, MC1, MC2}

\* k1 is the last key of a file once it leaves the default one.
MCLastKeyMaps == {MC0, [MC2 EXCEPT ![k2][fr] = NoValue]}

\* An edition of an updated or added key, a blank one, and one in a locale the
\* group of the key is not configured for.
MCEditions == {<<k1, fr, y>>, <<k2, fr, Blank>>, <<k3, fr, x>>}

\* A response file holds the labels of one bundle in one locale.
MCResponses == {[EmptyMap EXCEPT ![k1][fr] = y, ![k2][fr] = x]}

MCAuthors == 1 .. MaxRequest

HandlerSymmetry == Permutations({h1, h2})
==============================================================================
