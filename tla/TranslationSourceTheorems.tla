------------------------ MODULE TranslationSourceTheorems ------------------------
(***************************************************************************)
(* Facts about the algorithms of TranslationMaps, for all maps and diffs,  *)
(* and about the commits of TranslationSource, for all repositories.       *)
(***************************************************************************)
EXTENDS TranslationSource, SequenceTheorems, TLAPS

USE MapsAssumption, SourceAssumption

-----------------------------------------------------------------------------
(* Maps and diffs. *)

\* A map without any label, the labels of one key, and the empty entry are well
\* formed.
LEMMA EmptyTypes ==
  /\ NoLabels \in Labels
  /\ EmptyMap \in Map
  /\ NoEntry \in Entry
  /\ NoDiff \in Diffs
<1>1. NoLabels \in Labels
  BY DEF NoLabels, Labels, Cell
<1>2. EmptyMap \in Map
  BY <1>1 DEF EmptyMap, Map
<1>3. NoEntry \in Entry
  BY <1>1 DEF NoEntry, Entry
<1>4. NoDiff \in Diffs
  BY <1>3 DEF NoDiff, Diffs
<1> QED BY <1>1, <1>2, <1>3, <1>4

\* The difference of two maps is a diff (TranslationMapServiceImpl.diff).
LEMMA DiffIsDiff ==
  ASSUME NEW o \in Map, NEW n \in Map
  PROVE  Diff(o, n) \in Diffs
<1> SUFFICES ASSUME NEW k \in Key
             PROVE  EntryOf(o, n, k, DiffType(o, n, k)) \in Entry
  BY EmptyTypes DEF Diff, Diffs
<1>1. DiffType(o, n, k) \in ChangeType \cup {"NONE"}
  BY DEF DiffType, ChangeType
<1>2. o[k] \in Labels /\ n[k] \in Labels
  BY DEF Map
<1> QED BY <1>1, <1>2 DEF EntryOf, Entry

\* Applying a diff to a map gives a map (TranslationMap.applyDiff).
LEMMA ApplyDiffType ==
  ASSUME NEW m \in Map, NEW d \in Diffs
  PROVE  ApplyDiff(m, d) \in Map
<1> SUFFICES ASSUME NEW k \in Key, NEW l \in Locale
             PROVE  ApplyDiff(m, d)[k][l] \in Cell
  BY DEF ApplyDiff, Merge, Map, Labels
<1>1. m[k][l] \in Cell /\ d[k].new[l] \in Cell
  BY DEF Map, Labels, Diffs, Entry
<1>2. NoValue \in Cell
  BY DEF Cell
<1> QED BY <1>1, <1>2 DEF ApplyDiff, Merge, Without, AsMap, NoLabels

\* Files of two maps make a map: the content of a working copy, or of a commit.
LEMMA OverlayType ==
  ASSUME NEW m \in Map, NEW wc \in Map, NEW files
  PROVE  Overlay(m, files, wc) \in Map
  BY DEF Overlay, Map, Labels

\* What is written into a working copy of a map is a map.
LEMMA WriteToType ==
  ASSUME NEW m \in Map, NEW wc \in Map
  PROVE  WriteTo(m, wc) \in Map
  BY OverlayType DEF WriteTo

\* Editing an entry changes neither its type nor its old values and removes no
\* row; the result is an entry (RequestServiceImpl.editRequestEntry).
LEMMA EditedType ==
  ASSUME NEW e \in Entry, NEW labels \in Labels
  PROVE  /\ Edited(e, labels) \in Entry
         /\ Edited(e, labels).type = e.type
         /\ Edited(e, labels).old = e.old
         /\ e.rows \subseteq Edited(e, labels).rows
  BY DEF Edited, Entry, Labels

\* Applied again, a diff gives a cell the value it gave it the first time, whether
\* that value was kept or the cell went back to what it was (TranslationMap.applyDiff).
LEMMA ApplyDiffAgain ==
  ASSUME NEW m \in Map, NEW n \in Map, NEW d \in Diffs, NEW k \in Key, NEW l \in Locale
  PROVE  /\ n[k][l] = ApplyDiff(m, d)[k][l] =>
              ApplyDiff(n, d)[k][l] = ApplyDiff(m, d)[k][l]
         /\ n[k][l] = m[k][l] => ApplyDiff(n, d)[k][l] = ApplyDiff(m, d)[k][l]
<1> DEFINE brought == AsMap(d)[k][l]
           left(c) == IF d[k].type = "DELETED" THEN NoValue ELSE c
<1>1. \A c \in Map : ApplyDiff(c, d)[k][l] = IF brought # NoValue THEN brought
                                                                  ELSE left(c[k][l])
  BY DEF ApplyDiff, Merge, Without, NoLabels
<1> HIDE DEF brought
<1> QED BY <1>1

\* A label of the merged map in a configured locale is in the working copy; if its
\* file is not sent, it was in the checkout.
LEMMA WrittenLabel ==
  ASSUME NEW m \in Map, NEW wc \in Map,
         NEW k \in Key, NEW l \in GroupLocales[BundleOf[k]], m[k][l] # NoValue
  PROVE  /\ WriteTo(m, wc)[k][l] = m[k][l]
         /\ FileOf(k, l) \notin ChangedFiles(WriteTo(m, wc), wc) => wc[k][l] = m[k][l]
<1>1. l \in Locale /\ BundleOf[k] \in Bundle
  OBVIOUS
<1>2. FileOf(k, l) \in File /\ FileOf(k, l)[1] = BundleOf[k] /\ FileOf(k, l)[2] = l
  BY <1>1 DEF FileOf, File
<1>3. FileOf(k, l) \in WrittenFiles(m)
  BY <1>2 DEF WrittenFiles
<1>4. WriteTo(m, wc)[k][l] = m[k][l]
  BY <1>1, <1>3 DEF WriteTo, Overlay
<1> QED BY <1>2, <1>4 DEF ChangedFiles

\* A label of a diff is a label of the map it is applied to.
LEMMA AppliedLabel ==
  ASSUME NEW m \in Map, NEW d \in Diffs, NEW k \in Key, NEW l \in Locale,
         AsMap(d)[k][l] # NoValue
  PROVE  ApplyDiff(m, d)[k][l] = AsMap(d)[k][l]
  BY DEF ApplyDiff, Merge

-----------------------------------------------------------------------------
(* The source: revisions are maps, and are only ever appended. *)

\* A revision of the source holds a map.
LEMMA MapAtType ==
  ASSUME SourceTypeOK, NEW v \in 1 .. Latest
  PROVE  MapAt(v) \in Map /\ repo[v] \in Revision
<1>1. repo[v] \in Revision
  BY DEF SourceTypeOK, Latest
<1> QED BY <1>1 DEF Revision, MapAt

\* The head is a revision number.
LEMMA LatestType == SourceTypeOK => Latest \in Nat \ {0}
  BY DEF SourceTypeOK, Latest

\* Appending a revision keeps the type and the history of the source.
LEMMA AppendRevision ==
  ASSUME SourceTypeOK, NEW m \in Map, NEW a \in Author \cup {Developers},
         repo' = Append(repo, [map |-> m, by |-> a])
  PROVE  /\ SourceTypeOK'
         /\ HistoryKept
         /\ Latest' = Latest + 1
         /\ repo'[Latest + 1] = [map |-> m, by |-> a]
<1>1. [map |-> m, by |-> a] \in Revision
  BY DEF Revision
<1> QED BY <1>1 DEF SourceTypeOK, HistoryKept, Latest

\* A step that keeps the history keeps every revision that was there.
LEMMA KeepRevisions ==
  ASSUME SourceTypeOK, UNCHANGED repo
  PROVE  SourceTypeOK' /\ HistoryKept /\ Latest' = Latest
  BY DEF SourceTypeOK, HistoryKept, Latest

\* A commit of the console appends a revision of its author.
LEMMA CommitRevisionType ==
  ASSUME SourceTypeOK, NEW m \in Map, NEW base \in 1 .. Latest,
         NEW a \in Author, CommitRevision(m, base, a)
  PROVE  /\ SourceTypeOK'
         /\ HistoryKept
         /\ Latest' = Latest + 1
         /\ repo'[Latest + 1].by = a
<1> DEFINE new == Overlay(WorkingCopy(m, base), SentFiles(m, base), LatestMap)
<1>1. LatestMap \in Map
  BY MapAtType, LatestType DEF LatestMap
<1>2. WorkingCopy(m, base) \in Map
  BY MapAtType, WriteToType DEF WorkingCopy
<1>3. new \in Map
  BY <1>1, <1>2, OverlayType
<1>4. repo' = Append(repo, [map |-> new, by |-> a])
  BY DEF CommitRevision
<1>5. a \in Author \cup {Developers}
  OBVIOUS
<1> HIDE DEF new
<1>6. /\ SourceTypeOK'
      /\ HistoryKept
      /\ Latest' = Latest + 1
      /\ repo'[Latest + 1] = [map |-> new, by |-> a]
  BY <1>3, <1>4, <1>5, AppendRevision
<1> QED BY <1>6

\* A commit of a developer keeps the type of the repository.
LEMMA DeveloperCommitType ==
  ASSUME SourceTypeOK, NEW m \in SourceMaps, DeveloperCommit(m)
  PROVE  SourceTypeOK' /\ HistoryKept /\ Latest' = Latest + 1
<1>1. m \in Map
  BY DEF SourceMap
<1>2. repo' = Append(repo, [map |-> m, by |-> Developers])
  BY DEF DeveloperCommit
<1> QED BY <1>1, <1>2, AppendRevision

\* A revision stays what it is while the source grows.
LEMMA HistoryFacts ==
  ASSUME SourceTypeOK, HistoryKept, NEW v \in 1 .. Latest
  PROVE  /\ repo'[v] = repo[v]
         /\ MapAt(v)' = MapAt(v)
         /\ v \in 1 .. Latest'
  BY DEF SourceTypeOK, HistoryKept, Latest, MapAt

\* A label of a map that is written was in the checkout, or the commit brings it.
LEMMA CommitBringsLabels ==
  ASSUME SourceTypeOK, NEW m \in Map, NEW base \in 1 .. Latest, NEW a \in Author,
         CommitRevision(m, base, a) \/ CommitNothing(m, base),
         NEW k \in Key, NEW l \in GroupLocales[BundleOf[k]], m[k][l] # NoValue
  PROVE  \/ MapAt(base)[k][l] = m[k][l]
         \/ /\ CommitRevision(m, base, a)
            /\ Latest' = Latest + 1
            /\ repo'[Latest + 1].map[k][l] = m[k][l]
<1> DEFINE f == FileOf(k, l)
<1>1. l \in Locale /\ MapAt(base) \in Map
  BY MapAtType
<1>2. /\ WorkingCopy(m, base)[k][l] = m[k][l]
      /\ f \notin SentFiles(m, base) => MapAt(base)[k][l] = m[k][l]
  BY <1>1, WrittenLabel DEF WorkingCopy, SentFiles
<1>3. CASE f \in SentFiles(m, base)
  <2>1. CommitRevision(m, base, a)
    BY <1>3 DEF CommitNothing
  <2>2. repo' = Append(repo, [map |-> Overlay(WorkingCopy(m, base),
                                              SentFiles(m, base), LatestMap),
                              by  |-> a])
    BY <2>1 DEF CommitRevision
  <2>3. Overlay(WorkingCopy(m, base), SentFiles(m, base), LatestMap)[k][l] = m[k][l]
    BY <1>1, <1>2, <1>3 DEF Overlay
  <2> QED BY <2>1, <2>2, <2>3 DEF SourceTypeOK, Latest
<1> QED BY <1>2, <1>3

-----------------------------------------------------------------------------
(* A file no revision after a checkout changed still has the content of the
   checkout.  Over the revisions of a fixed repository this is an induction; it is
   proved here over the steps that append them.                              *)

\* No revision after base changed the file of a cell.
Untouched(k, l, base) ==
  \A v \in base + 1 .. Latest :
    FileOf(k, l) \notin ChangedFiles(MapAt(v), MapAt(v - 1))

UntouchedFilesAreKept ==
  \A base \in 1 .. Latest : \A k \in Key, l \in Locale :
    FileOf(k, l) \in File /\ Untouched(k, l, base) =>
      LatestMap[k][l] = MapAt(base)[k][l]

\* The first revision is its own past.
LEMMA UntouchedFilesInit == SourceInit => UntouchedFilesAreKept
  BY DEF SourceInit, UntouchedFilesAreKept, Latest, LatestMap, MapAt

\* A commit of the head extends the history by one revision.
LEMMA UntouchedFilesStep ==
  ASSUME SourceTypeOK, SourceTypeOK', HistoryKept, Latest' \in {Latest, Latest + 1},
         UntouchedFilesAreKept
  PROVE  UntouchedFilesAreKept'
<1>1. Latest \in Nat \ {0}
  BY LatestType
<1> SUFFICES ASSUME NEW base \in 1 .. Latest',
                    NEW k \in Key, NEW l \in Locale, FileOf(k, l) \in File,
                    \A v \in base + 1 .. Latest' :
                      FileOf(k, l) \notin ChangedFiles(repo'[v].map, repo'[v - 1].map)
             PROVE  repo'[Latest'].map[k][l] = repo'[base].map[k][l]
  BY DEF UntouchedFilesAreKept, Untouched, LatestMap, MapAt
<1>2. CASE base = Latest'
  BY <1>2
<1>3. CASE base \in 1 .. Latest
  <2>1. \A v \in 1 .. Latest : repo'[v] = repo[v]
    BY HistoryFacts
  <2>2. LatestMap[k][l] = MapAt(base)[k][l]
    <3>1. SUFFICES Untouched(k, l, base)
      BY <1>3 DEF UntouchedFilesAreKept
    <3>2. SUFFICES ASSUME NEW v \in base + 1 .. Latest
                   PROVE  FileOf(k, l) \notin ChangedFiles(MapAt(v), MapAt(v - 1))
      BY DEF Untouched
    <3>3. /\ v \in base + 1 .. Latest'
          /\ v \in 1 .. Latest
          /\ v - 1 \in 1 .. Latest
      BY <1>1, <1>3
    <3>4. FileOf(k, l) \notin ChangedFiles(repo'[v].map, repo'[v - 1].map)
      BY <3>3
    <3> QED BY <2>1, <3>3, <3>4 DEF MapAt
  <2>3. repo'[base].map = MapAt(base) /\ repo'[Latest].map = LatestMap
    BY <1>1, <1>3, <2>1 DEF MapAt, LatestMap
  <2>4. CASE Latest' = Latest
    BY <2>2, <2>3, <2>4
  <2>5. CASE Latest' = Latest + 1
    <3>1. Latest + 1 \in base + 1 .. Latest'
      BY <1>1, <1>3, <2>5
    <3>2. FileOf(k, l) \notin ChangedFiles(repo'[Latest + 1].map, repo'[Latest].map)
      <4>1. ASSUME NEW v \in base + 1 .. Latest', v = Latest + 1
            PROVE  FileOf(k, l) \notin ChangedFiles(repo'[v].map, repo'[Latest].map)
        <5>1. FileOf(k, l) \notin ChangedFiles(repo'[v].map, repo'[v - 1].map)
          OBVIOUS
        <5>2. v - 1 = Latest
          BY <1>1, <4>1
        <5> QED BY <5>1, <5>2
      <4> QED BY <3>1, <4>1
    <3>3. repo'[Latest + 1].map[k][l] = repo'[Latest].map[k][l]
      BY <3>2 DEF ChangedFiles, FileOf
    <3> QED BY <2>2, <2>3, <2>5, <3>3
  <2> QED BY <2>4, <2>5
<1> QED BY <1>1, <1>2, <1>3

\* A label that the written map has as the checkout has it is left as the head has
\* it: Subversion would have rejected the file otherwise.
LEMMA CommitKeepsOthers ==
  ASSUME SourceTypeOK, UntouchedFilesAreKept, NEW m \in Map, NEW base \in 1 .. Latest,
         NEW a \in Author, CommitRevision(m, base, a),
         NEW k \in Key, NEW l \in Locale, m[k][l] = MapAt(base)[k][l]
  PROVE  /\ repo'[Latest + 1].map[k][l] = LatestMap[k][l]
         /\ repo'[Latest].map = LatestMap
<1> DEFINE wc   == WorkingCopy(m, base)
           sent == SentFiles(m, base)
           new  == Overlay(wc, sent, LatestMap)
<1>1. wc[k][l] = MapAt(base)[k][l]
  BY DEF WorkingCopy, WriteTo, Overlay
<1>2. ASSUME FileOf(k, l) \in sent
      PROVE  LatestMap[k][l] = MapAt(base)[k][l]
  <2>1. FileOf(k, l) \in File
    BY <1>2 DEF SentFiles, ChangedFiles
  <2>2. Untouched(k, l, base)
    BY <1>2 DEF CommitRevision, OutOfDate, Untouched
  <2> QED BY <2>1, <2>2 DEF UntouchedFilesAreKept
<1>3. new[k][l] = LatestMap[k][l]
  BY <1>1, <1>2 DEF Overlay
<1>4. repo' = Append(repo, [map |-> new, by |-> a])
  BY DEF CommitRevision
<1> HIDE DEF new
<1>5. repo'[Latest + 1].map = new /\ repo'[Latest].map = LatestMap
  BY <1>4, LatestType DEF SourceTypeOK, Latest, LatestMap, MapAt
<1> QED BY <1>3, <1>5

-----------------------------------------------------------------------------
(* Retries. *)

\* A map written into the checkout it was computed from, and what the diff makes of
\* the result, agree on the files to write.
LEMMA WrittenAgain ==
  ASSUME NEW m \in Map, NEW d \in Diffs
  PROVE  LET merged == WriteTo(ApplyDiff(m, d), m)
         IN  ChangedFiles(WriteTo(ApplyDiff(merged, d), merged), merged) = {}
<1> DEFINE applied == ApplyDiff(m, d)
           merged  == WriteTo(applied, m)
           again   == ApplyDiff(merged, d)
<1>1. applied \in Map /\ merged \in Map /\ again \in Map
  BY ApplyDiffType, WriteToType
<1>2. ASSUME NEW k \in Key, NEW l \in Locale
      PROVE  /\ merged[k][l] \in {applied[k][l], m[k][l]}
             /\ FileOf(k, l) \in WrittenFiles(applied) => merged[k][l] = applied[k][l]
             /\ again[k][l] = applied[k][l]
  <2>1. merged[k][l] = IF FileOf(k, l) \in WrittenFiles(applied)
                       THEN applied[k][l] ELSE m[k][l]
    BY DEF WriteTo, Overlay
  <2> QED BY <1>1, <2>1, ApplyDiffAgain
<1> HIDE DEF applied, merged, again
<1>3. WrittenFiles(again) = WrittenFiles(applied)
  BY <1>2 DEF WrittenFiles, File
<1>4. ASSUME NEW k \in Key, NEW l \in Locale
      PROVE  WriteTo(again, merged)[k][l] = merged[k][l]
  BY <1>2, <1>3, <1>4 DEF WriteTo, Overlay
<1>5. ChangedFiles(WriteTo(again, merged), merged) = {}
  BY <1>4 DEF ChangedFiles, File
<1> QED BY <1>5 DEF applied, merged, again

\* A merge that wrote the source and whose transaction was rolled back may be tried
\* again: as long as nobody committed in between and its diff is the same, the
\* second one sends no file, whatever files the format leaves unwritten because no
\* key is left in them (RequestServiceImpl 454-456, PropertiesTxFileFormat 178).
THEOREM RetriedMergeSendsNothing ==
  ASSUME SourceTypeOK, NEW d \in Diffs, NEW a \in Author,
         CommitRevision(ApplyDiff(LatestMap, d), Latest, a)
  PROVE  SentFiles(ApplyDiff(LatestMap, d), Latest)' = {}
<1> DEFINE m      == LatestMap
           wc     == WorkingCopy(ApplyDiff(m, d), Latest)
           sent   == SentFiles(ApplyDiff(m, d), Latest)
           merged == Overlay(wc, sent, LatestMap)
<1>1. m \in Map /\ m = MapAt(Latest) /\ Latest \in Nat \ {0}
  BY LatestType, MapAtType DEF LatestMap
<1>2. wc = WriteTo(ApplyDiff(m, d), m) /\ wc \in Map
  BY <1>1, ApplyDiffType, WriteToType DEF WorkingCopy
<1>3. merged = wc
  <2>1. ASSUME NEW k \in Key, NEW l \in Locale
        PROVE  merged[k][l] = wc[k][l]
    <3>1. CASE FileOf(k, l) \in sent
      BY <3>1 DEF Overlay
    <3>2. CASE FileOf(k, l) \notin sent
      <4>1. merged[k][l] = MapAt(Latest)[k][l]
        BY <1>1, <3>2 DEF Overlay
      <4>2. CASE FileOf(k, l) \in WrittenFiles(ApplyDiff(m, d))
        <5>1. FileOf(k, l) \in File /\ FileOf(k, l)[1] = BundleOf[k] /\ FileOf(k, l)[2] = l
          BY <4>2 DEF WrittenFiles, FileOf
        <5>2. FileOf(k, l) \notin ChangedFiles(wc, MapAt(Latest))
          BY <3>2 DEF SentFiles
        <5> HIDE DEF wc
        <5>3. wc[k][l] = MapAt(Latest)[k][l]
          BY <5>1, <5>2 DEF ChangedFiles
        <5> QED BY <4>1, <5>3
      <4>3. CASE FileOf(k, l) \notin WrittenFiles(ApplyDiff(m, d))
        BY <1>1, <1>2, <4>1, <4>3 DEF WriteTo, Overlay
      <4> QED BY <4>2, <4>3
    <3> QED BY <3>1, <3>2
  <2>2. merged \in Map
    BY <1>1, <1>2, OverlayType
  <2> HIDE DEF merged, wc
  <2> QED BY <1>2, <2>1, <2>2 DEF Map, Labels
<1>4. repo' = Append(repo, [map |-> merged, by |-> a])
  BY DEF CommitRevision
<1> HIDE DEF merged, wc
<1>5. Latest' = Latest + 1 /\ repo'[Latest + 1].map = merged
  BY <1>1, <1>4 DEF SourceTypeOK, Latest
<1>6. LatestMap' = merged /\ MapAt(Latest)' = merged
  BY <1>5 DEF LatestMap, MapAt
<1>7. SentFiles(ApplyDiff(LatestMap, d), Latest)'
        = ChangedFiles(WriteTo(ApplyDiff(merged, d), merged), merged)
  BY <1>6 DEF SentFiles, WorkingCopy
<1>8. ChangedFiles(WriteTo(ApplyDiff(merged, d), merged), merged) = {}
  BY <1>1, <1>2, <1>3, WrittenAgain
<1> QED BY <1>7, <1>8
==============================================================================
