--------------------------- MODULE TranslationMaps ---------------------------
(***************************************************************************)
(* Translation maps, the difference of two of them and the reintegration   *)
(* of a difference: the pure algorithms every request and contribution of  *)
(* the console is built from.                                              *)
(*                                                                         *)
(* A map is a total function key -> locale -> cell.  A key of the code     *)
(* (bundle, section, name) is one element of Key, BundleOf gives its       *)
(* bundle.  A key that has no value in any locale and a key that is absent *)
(* are the same map: no file can hold the former.  A text is an element of *)
(* Text, Blank stands for the texts StringUtils.isBlank accepts, and       *)
(* NoValue for null.                                                       *)
(***************************************************************************)
CONSTANTS
  Key,            \* (bundle, section, name) identifiers
  Locale,         \* supported locales: the union over the property groups
  Bundle,         \* bundles, one per property group of the configuration
  Text,           \* labels that are not blank
  Blank,          \* a label that is present and blank
  NoValue,        \* no label at all
  DefaultLocale,  \* reference locale of the branch
  BundleOf,       \* [Key -> Bundle]
  GroupLocales    \* [Bundle -> SUBSET Locale]: locales configured per group

ASSUME MapsAssumption ==
  /\ DefaultLocale \in Locale
  /\ BundleOf \in [Key -> Bundle]
  /\ GroupLocales \in [Bundle -> SUBSET Locale]
  /\ Blank # NoValue
  /\ Blank \notin Text
  /\ NoValue \notin Text

Value == Text \cup {Blank}
Cell  == Value \cup {NoValue}
Labels == [Locale -> Cell]
Map   == [Key -> Labels]

NoLabels == [l \in Locale |-> NoValue]
EmptyMap == [k \in Key |-> NoLabels]

\* The maps a working copy of the source can hold: a file exists only for the
\* locales of its group.
SourceMap == {m \in Map : \A k \in Key, l \in Locale :
                            m[k][l] # NoValue => l \in GroupLocales[BundleOf[k]]}

-----------------------------------------------------------------------------
(* Differences.  An entry of type "NONE" is a key that is not in the diff.
   rows is the set of locales that have an entry value (a database row).    *)

ChangeType == {"ADDED", "UPDATED", "DELETED"}
Entry   == [type : ChangeType \cup {"NONE"}, rows : SUBSET Locale,
            old : Labels, new : Labels]
Diffs   == [Key -> Entry]

NoEntry == [type |-> "NONE", rows |-> {}, old |-> NoLabels, new |-> NoLabels]
NoDiff  == [k \in Key |-> NoEntry]

\* Only the default locale is looked at to classify a key.
HasReference(m, k) == m[k][DefaultLocale] # NoValue

DiffType(o, n, k) ==
  CASE HasReference(o, k) /\ ~HasReference(n, k) -> "DELETED"
    [] ~HasReference(o, k) /\ HasReference(n, k) -> "ADDED"
    [] HasReference(o, k) /\ HasReference(n, k)
         /\ o[k][DefaultLocale] # n[k][DefaultLocale] -> "UPDATED"
    [] OTHER -> "NONE"

\* One entry value per locale that has a label on either side.
EntryOf(o, n, k, type) ==
  [type |-> type,
   rows |-> {l \in Locale : o[k][l] # NoValue \/ n[k][l] # NoValue},
   old  |-> o[k],
   new  |-> n[k]]

Diff(o, n) ==
  [k \in Key |-> IF DiffType(o, n, k) = "NONE"
                 THEN NoEntry
                 ELSE EntryOf(o, n, k, DiffType(o, n, k))]

Editable(entry) == entry.type \in {"ADDED", "UPDATED"}
KeysOf(d) == {k \in Key : d[k].type # "NONE"}

\* The new values entered by an edition or an upload, in the locales where labels
\* has one: a row is updated, or inserted with a null old value.
Edited(entry, labels) ==
  [entry EXCEPT
     !.rows = @ \cup {l \in Locale : labels[l] # NoValue},
     !.new  = [l \in Locale |-> IF labels[l] # NoValue THEN labels[l] ELSE @[l]]]

-----------------------------------------------------------------------------
(* Reintegration of a diff into a map. *)

\* The values a diff brings: never a blank one, never one of a deleted key.
AsMap(d) ==
  [k \in Key |-> [l \in Locale |->
     IF Editable(d[k]) /\ d[k].new[l] \in Text THEN d[k].new[l] ELSE NoValue]]

Without(m, keys) == [k \in Key |-> IF k \in keys THEN NoLabels ELSE m[k]]

Merge(target, source) ==
  [k \in Key |-> [l \in Locale |->
     IF source[k][l] # NoValue THEN source[k][l] ELSE target[k][l]]]

ApplyDiff(m, d) ==
  Merge(Without(m, {k \in Key : d[k].type = "DELETED"}), AsMap(d))

-----------------------------------------------------------------------------
(* The controls shown to the translator: pairs of a code and a locale. *)

IsBlank(cell) == cell \in {Blank, NoValue}

Controls(entry) ==
  LET missing   == {l \in Locale : IsBlank(entry.new[l])}
      unchanged == {l \in Locale : ~IsBlank(entry.new[l])
                                     /\ entry.old[l] = entry.new[l]}
  IN  CASE entry.type = "ADDED"   -> {"MISSING"} \X missing
        [] entry.type = "UPDATED" -> ({"MISSING"} \X missing)
                                       \cup ({"UNCHANGED"} \X unchanged)
        [] OTHER -> {}

-----------------------------------------------------------------------------
(* Files of a working copy: one per bundle and configured locale. *)

File == {f \in Bundle \X Locale : f[2] \in GroupLocales[f[1]]}
FileOf(k, l) == <<BundleOf[k], l>>

\* The files a map has something to write into.  A configured file for which
\* the map has no key left is not rewritten.
WrittenFiles(m) ==
  {f \in File : \E k \in Key : BundleOf[k] = f[1] /\ m[k][f[2]] # NoValue}

\* Each cell comes from the first map if its file is one of files, from the
\* second one otherwise.
Overlay(m, files, under) ==
  [k \in Key |-> [l \in Locale |->
     IF FileOf(k, l) \in files THEN m[k][l] ELSE under[k][l]]]

\* Content of a working copy, which held wc, once map m is written into it.
WriteTo(m, wc) == Overlay(m, WrittenFiles(m), wc)

\* The files that differ between two contents.
ChangedFiles(m1, m2) ==
  {f \in File : \E k \in Key : BundleOf[k] = f[1] /\ m1[k][f[2]] # m2[k][f[2]]}
==============================================================================
