------------------------- MODULE RequestServiceProofs -------------------------
(***************************************************************************)
(* Proofs about RequestService, for any number of handlers, requests,      *)
(* revisions, keys and labels.                                             *)
(***************************************************************************)
EXTENDS RequestService, TranslationSourceTheorems

USE MapsAssumption, SourceAssumption, ServiceAssumption

-----------------------------------------------------------------------------
(* Types of the local states. *)

\* An idle handler has the type of a handler.
LEMMA IdleType == Idle \in Tx
  BY EmptyTypes DEF Idle, Tx, Step

\* The absence of a row has the type of a row.
LEMMA NoRowType == NoRow \in Row
  BY EmptyTypes DEF NoRow, Row

\* A handler that is not idle works on a request id or on none.
LEMMA TargetType ==
  ASSUME TypeOK, HandlersKnow, NEW h \in Handler, ~At(h, "idle")
  PROVE  Target(h) \in RequestId
  BY DEF TypeOK, HandlersKnow, TargetsAllocated, RequestId, Target

\* A merge loads some diff, and has some of its values still to load.
Loads(h, d, keys) ==
  /\ tx[h].step \in {"mapRead", "diffLoaded"}
  /\ tx' = [tx EXCEPT ![h] = [tx[h] EXCEPT !.step = "diffLoaded", !.diff = d,
                                           !.left = keys]]
  /\ UNCHANGED <<repo, requests, nextId, events>>

\* The entry whose values are loaded next, once they are.
Loaded(h, k) ==
  [requests[Target(h)].entries[k] EXCEPT !.type = tx[h].diff[k].type]

LEMMA LoadsLocal ==
  ASSUME TypeOK, NEW h \in Handler, LoadDiff(h) \/ LoadValues(h)
  PROVE  \E d, keys : Loads(h, d, keys)
<1>1. CASE LoadDiff(h)
  <2> DEFINE entries == requests[Target(h)].entries
             d == [k \in Key |-> [NoEntry EXCEPT !.type = entries[k].type]]
             keys == KeysOf(entries)
  <2>1. tx' = [tx EXCEPT ![h] = [tx[h] EXCEPT !.step = "diffLoaded", !.diff = d,
                                             !.left = keys]]
    BY <1>1 DEF LoadDiff, Advance
  <2> HIDE DEF d, keys
  <2>2. Loads(h, d, keys)
    BY <1>1, <2>1 DEF LoadDiff, At, Loads
  <2> QED BY <2>2
<1>2. CASE LoadValues(h)
  <2>1. PICK k : tx' = [tx EXCEPT ![h] = [tx[h] EXCEPT !.diff[k] = Loaded(h, k),
                                                       !.left = @ \ {k}]]
    BY <1>2 DEF LoadValues, Advance, Loaded
  <2> DEFINE d == [tx[h].diff EXCEPT ![k] = Loaded(h, k)]
             keys == tx[h].left \ {k}
  <2>2. tx[h].step = "diffLoaded" /\ tx[h] \in Tx
    BY <1>2 DEF LoadValues, At, TypeOK
  <2>3. [tx[h] EXCEPT !.diff[k] = Loaded(h, k), !.left = @ \ {k}]
          = [tx[h] EXCEPT !.step = "diffLoaded", !.diff = d, !.left = keys]
    <3> HIDE DEF Loaded
    <3> QED BY <2>2 DEF Tx
  <2> HIDE DEF d, keys
  <2>4. Loads(h, d, keys)
    BY <1>2, <2>1, <2>2, <2>3 DEF LoadValues, Loads
  <2> QED BY <2>4
<1> QED BY <1>1, <1>2

LEMMA LoadsType ==
  ASSUME TypeOK, HandlersKnow, NEW h \in Handler, LoadDiff(h) \/ LoadValues(h)
  PROVE  \E d \in Diffs, keys \in SUBSET Key : Loads(h, d, keys)
<1>1. tx[h] \in Tx /\ requests[Target(h)].entries \in Diffs
  <2>1. Target(h) \in RequestId
    BY TargetType DEF LoadDiff, LoadValues, At
  <2> QED BY <2>1 DEF TypeOK, Row
<1>2. CASE LoadDiff(h)
  <2> DEFINE entries == requests[Target(h)].entries
             d == [k \in Key |-> [NoEntry EXCEPT !.type = entries[k].type]]
             keys == KeysOf(entries)
  <2>1. d \in Diffs
    <3>1. ASSUME NEW k \in Key
          PROVE  [NoEntry EXCEPT !.type = entries[k].type] \in Entry
      <4>1. entries[k].type \in ChangeType \cup {"NONE"}
        BY <1>1 DEF Diffs, Entry
      <4> QED BY <4>1, EmptyTypes DEF NoEntry, Entry
    <3> QED BY <3>1 DEF Diffs
  <2>2. keys \in SUBSET Key
    BY DEF KeysOf
  <2>3. tx' = [tx EXCEPT ![h] = [tx[h] EXCEPT !.step = "diffLoaded", !.diff = d,
                                             !.left = keys]]
    BY <1>2 DEF LoadDiff, Advance
  <2> HIDE DEF d, keys
  <2>4. Loads(h, d, keys)
    BY <1>2, <2>3 DEF LoadDiff, At, Loads
  <2> QED BY <2>1, <2>2, <2>4
<1>3. CASE LoadValues(h)
  <2> DEFINE k == CHOOSE k \in tx[h].left : TRUE
             d == [tx[h].diff EXCEPT ![k] = Loaded(h, k)]
             keys == tx[h].left \ {k}
  <2>1. k \in Key
    BY <1>1, <1>3 DEF LoadValues, Tx
  <2>2. tx' = [tx EXCEPT ![h] = [tx[h] EXCEPT !.diff[k] = Loaded(h, k),
                                             !.left = @ \ {k}]]
    BY <1>3 DEF LoadValues, Advance, Loaded
  <2>3. tx[h].step = "diffLoaded"
    BY <1>3 DEF LoadValues, At
  <2>4. Loaded(h, k) \in Entry
    <3>1. tx[h].diff[k].type \in ChangeType \cup {"NONE"}
      BY <1>1, <2>1 DEF Tx, Diffs, Entry
    <3>2. requests[Target(h)].entries[k] \in Entry
      BY <1>1, <2>1 DEF Diffs
    <3> QED BY <3>1, <3>2 DEF Loaded, Entry
  <2> HIDE DEF k
  <2>5. d \in Diffs /\ keys \in SUBSET Key
    BY <1>1, <2>1, <2>4 DEF Tx, Diffs
  <2>6. [tx[h] EXCEPT !.diff[k] = Loaded(h, k), !.left = @ \ {k}]
          = [tx[h] EXCEPT !.step = "diffLoaded", !.diff = d, !.left = keys]
    <3> HIDE DEF Loaded
    <3> QED BY <1>1, <2>3 DEF Tx
  <2> HIDE DEF d, keys
  <2>7. Loads(h, d, keys)
    BY <1>3, <2>2, <2>3, <2>6 DEF LoadValues, Loads
  <2> QED BY <2>5, <2>7
<1> QED BY <1>2, <1>3

\* The initial states have the right types.
LEMMA InitType == Init => TypeOK
<1> SUFFICES ASSUME Init PROVE TypeOK
  OBVIOUS
<1>1. SourceTypeOK
  <2>1. PICK m \in SourceMaps : repo = <<[map |-> m, by |-> Developers]>>
    BY DEF Init, SourceInit
  <2>2. [map |-> m, by |-> Developers] \in Revision
    BY DEF Revision, SourceMap
  <2> QED BY <2>1, <2>2 DEF SourceTypeOK
<1>2. requests \in [RequestId -> Row]
  BY NoRowType DEF Init
<1>3. nextId \in 1 .. MaxRequest + 1
  BY DEF Init
<1>4. tx \in [Handler -> Tx]
  BY IdleType DEF Init
<1>5. events \in [EventCode -> [RequestId -> Nat]]
  BY DEF Init
<1> QED BY <1>1, <1>2, <1>3, <1>4, <1>5 DEF TypeOK

\* Every step keeps the types.
LEMMA StepType ==
  ASSUME TypeOK, HandlersKnow, [Next]_vars
  PROVE  TypeOK' /\ HistoryKept
<1> USE DEF TypeOK
<1>1. CASE UNCHANGED vars
  BY <1>1, KeepRevisions DEF vars
<1>2. CASE Developer
  BY <1>2, DeveloperCommitType DEF Developer
<1>3. ASSUME NEW h \in Handler, Begin(h)
      PROVE  TypeOK' /\ HistoryKept
  <2>1. SourceTypeOK' /\ HistoryKept
    BY <1>3, KeepRevisions
       DEF Begin, BeginCreate, BeginMerge, BeginDelete, BeginEdit, BeginUpload
  <2>2. ASSUME NEW v \in Version, BeginCreate(h, v) PROVE TypeOK'
    <3>1. [Idle EXCEPT !.step = "creating", !.request = nextId, !.version = v] \in Tx
      BY <2>2, IdleType DEF BeginCreate, Tx, Step
    <3> QED BY <2>1, <2>2, <3>1 DEF BeginCreate, Advance, RequestId
  <2>3. ASSUME NEW r \in RequestId, BeginMerge(h, r) PROVE TypeOK'
    <3>1. [Idle EXCEPT !.step = "merging", !.request = r] \in Tx
      BY IdleType DEF Tx, Step
    <3> QED BY <2>1, <2>3, <3>1 DEF BeginMerge, Advance
  <2>4. ASSUME NEW r \in RequestId, BeginDelete(h, r) PROVE TypeOK'
    <3>1. [Idle EXCEPT !.step = "deleting", !.request = r] \in Tx
      BY IdleType DEF Tx, Step
    <3> QED BY <2>1, <2>4, <3>1 DEF BeginDelete, Advance
  <2>5. ASSUME NEW r \in RequestId, NEW e \in Editions,
               BeginEdit(h, r, e[1], e[2], e[3])
        PROVE TypeOK'
    <3>1. e[1] \in Key /\ e[2] \in Locale /\ e[3] \in Cell
      BY DEF Cell
    <3>2. [EmptyMap EXCEPT ![e[1]][e[2]] = e[3]] \in Map
      BY <3>1, EmptyTypes DEF Map, Labels
    <3>3. [Idle EXCEPT !.step = "editing", !.request = r,
                       !.input[e[1]][e[2]] = e[3]]
            = [Idle EXCEPT !.step = "editing", !.request = r,
                           !.input = [EmptyMap EXCEPT ![e[1]][e[2]] = e[3]]]
      BY DEF Idle
    <3>4. [Idle EXCEPT !.step = "editing", !.request = r,
                       !.input = [EmptyMap EXCEPT ![e[1]][e[2]] = e[3]]] \in Tx
      BY <3>2, IdleType DEF Tx, Step
    <3> QED BY <2>1, <2>5, <3>3, <3>4 DEF BeginEdit, Advance
  <2>6. ASSUME NEW r \in RequestId, NEW response \in Responses,
               BeginUpload(h, r, response)
        PROVE TypeOK'
    <3>1. [Idle EXCEPT !.step = "editing", !.request = r, !.input = response] \in Tx
      BY IdleType DEF Tx, Step
    <3> QED BY <2>1, <2>6, <3>1 DEF BeginUpload, Advance
  <2> QED BY <1>3, <2>1, <2>2, <2>3, <2>4, <2>5, <2>6 DEF Begin
<1>4. ASSUME NEW h \in Handler, Continue(h)
      PROVE  TypeOK' /\ HistoryKept
  <2> USE DEF Continue
  <2>1. tx[h] \in Tx /\ (~At(h, "idle") => Target(h) \in RequestId)
    BY TargetType
  <2>2. CASE CommitSource(h)
    <3>1. /\ tx[h].read \in 1 .. Latest
          /\ tx[h].checkout \in 1 .. Latest
          /\ Target(h) \in Author
          /\ tx[h].diff \in Diffs
      BY <2>1, <2>2 DEF CommitSource, At, HandlersKnow, RevisionsExist, Tx, RequestId
    <3>2. MergedMap(h) \in Map
      BY <3>1, MapAtType, ApplyDiffType DEF MergedMap
    <3>3. SourceTypeOK' /\ HistoryKept
      BY <2>2, <3>1, <3>2, CommitRevisionType, KeepRevisions
         DEF CommitSource, CommitNothing
    <3>4. Latest + 1 \in Nat
      BY LatestType
    <3>5. /\ [tx[h] EXCEPT !.step = "written", !.committed = Latest + 1] \in Tx
          /\ [tx[h] EXCEPT !.step = "written", !.committed = NoRevision] \in Tx
      BY <2>1, <3>4 DEF Tx, Step
    <3> QED BY <2>2, <3>3, <3>5 DEF CommitSource, Advance
  <2>3. ~CommitSource(h) => SourceTypeOK' /\ HistoryKept
    BY <1>4, KeepRevisions
       DEF Export, ExportFails, CommitCreate, LoadEntries, CommitEdits, ReadMap,
           LoadDiff, LoadValues, Checkout, CommitMerge, CommitDelete
  <2>4. CASE Export(h)
    <3>1. tx[h].version \in 1 .. Latest
      BY <2>4, LatestType DEF Export, At, HandlersKnow, CreationsAlone, Creating, Version
    <3>2. Diff(MapAt(tx[h].version), LatestMap) \in Diffs
      BY <3>1, MapAtType, LatestType, DiffIsDiff DEF LatestMap
    <3>3. [tx[h] EXCEPT !.step = "exported", !.read = Latest,
                        !.diff = Diff(MapAt(tx[h].version), LatestMap)] \in Tx
      BY <2>1, <3>2, LatestType DEF Tx, Step
    <3> QED BY <2>3, <2>4, <3>3 DEF Export, Advance, CommitSource, At
  <2>5. CASE ExportFails(h)
    <3>1. [tx[h] EXCEPT !.step = "failed"] \in Tx
      BY <2>1 DEF Tx, Step
    <3> QED BY <2>3, <2>5, <3>1 DEF ExportFails, Advance, CommitSource, At
  <2>6. CASE CommitCreate(h)
    <3>1. NewRow(h) \in Row
      BY <2>1 DEF NewRow, Row, Tx
    <3>2. requests' \in [RequestId -> Row]
      BY <2>6, <3>1 DEF CommitCreate
    <3>3. events' \in [EventCode -> [RequestId -> Nat]]
      BY <2>1, <2>6 DEF CommitCreate, Event, EventCode, At
    <3>4. tx' \in [Handler -> Tx]
      BY <2>6, IdleType DEF CommitCreate, End, Advance
    <3> QED BY <2>3, <2>6, <3>2, <3>3, <3>4 DEF CommitCreate, CommitSource, At
  <2>7. CASE LoadEntries(h)
    <3> DEFINE found == [k \in Key |-> requests[Target(h)].entries[k].rows]
    <3>1. found \in [Key -> SUBSET Locale]
      BY <2>1, <2>7 DEF LoadEntries, At, Row, Diffs, Entry
    <3>2. [tx[h] EXCEPT !.step = "writing", !.rows = found] \in Tx
      BY <2>1, <3>1 DEF Tx, Step
    <3>3. tx' = [tx EXCEPT ![h] = [tx[h] EXCEPT !.step = "writing",
                                                !.rows = found]]
      BY <2>7 DEF LoadEntries, Advance
    <3>4. tx' \in [Handler -> Tx]
      BY <3>2, <3>3
    <3> QED BY <2>3, <2>7, <3>4 DEF LoadEntries, CommitSource, At
  <2>8. CASE CommitEdits(h)
    <3> DEFINE new == [k \in Key |-> Edited(requests[Target(h)].entries[k],
                                            tx[h].input[k])]
    <3>1. Target(h) \in RequestId
      BY <2>1, <2>8 DEF CommitEdits, At
    <3>2. new \in Diffs
      BY <2>1, <3>1, EditedType DEF Diffs, Row, Tx, Map
    <3>3. requests' = [requests EXCEPT ![Target(h)].entries = new]
      BY <2>8, <3>1 DEF CommitEdits
    <3> HIDE DEF new
    <3>4. requests' \in [RequestId -> Row]
      BY <3>1, <3>2, <3>3 DEF Row
    <3> QED BY <2>3, <2>8, <3>4, IdleType DEF CommitEdits, End, Advance, CommitSource, At
  <2>9. CASE ReadMap(h)
    <3>1. [tx[h] EXCEPT !.step = "mapRead", !.read = Latest] \in Tx
      BY <2>1, LatestType DEF Tx, Step
    <3> QED BY <2>3, <2>9, <3>1 DEF ReadMap, Advance, CommitSource, At
  <2>10. CASE LoadDiff(h) \/ LoadValues(h)
    <3>1. PICK d \in Diffs, keys \in SUBSET Key : Loads(h, d, keys)
      BY <2>10, LoadsType
    <3>2. [tx[h] EXCEPT !.step = "diffLoaded", !.diff = d, !.left = keys] \in Tx
      BY <2>1, <3>1 DEF Tx, Step
    <3>3. tx' \in [Handler -> Tx]
      BY <3>1, <3>2 DEF Loads
    <3>4. ~CommitSource(h)
      BY <3>1 DEF Loads, CommitSource, At
    <3> QED BY <2>3, <3>1, <3>3, <3>4 DEF Loads
  <2>11. CASE Checkout(h)
    <3>1. [tx[h] EXCEPT !.step = "checkedOut", !.checkout = Latest] \in Tx
      BY <2>1, LatestType DEF Tx, Step
    <3> QED BY <2>3, <2>11, <3>1 DEF Checkout, Advance, CommitSource, At
  <2>12. CASE CommitMerge(h)
    <3> DEFINE row == [requests[Target(h)] EXCEPT !.status = "CLOSED",
                                                  !.merge = tx[h].committed]
    <3>1. requests[Target(h)] \in Row
      BY <2>1, <2>12 DEF CommitMerge, At
    <3>2. tx[h].committed \in {NoVersion, NoRevision} \cup Nat
      BY <2>1 DEF Tx
    <3>3. row \in Row
      BY <3>1, <3>2 DEF Row
    <3>4. requests' = [requests EXCEPT ![Target(h)] = row]
      BY <2>1, <2>12 DEF CommitMerge, At
    <3>5. requests' \in [RequestId -> Row]
      <4> HIDE DEF row
      <4> QED BY <3>3, <3>4
    <3>6. events' \in [EventCode -> [RequestId -> Nat]]
      BY <2>1, <2>12 DEF CommitMerge, Event, EventCode, At
    <3> QED BY <2>3, <2>12, <3>5, <3>6, IdleType
            DEF CommitMerge, End, Advance, CommitSource, At
  <2>13. CASE CommitDelete(h)
    <3>1. requests' \in [RequestId -> Row]
      BY <2>13, NoRowType DEF CommitDelete
    <3>2. events' \in [EventCode -> [RequestId -> Nat]]
      BY <2>1, <2>13 DEF CommitDelete, Event, EventCode, At
    <3> QED BY <2>3, <2>13, <3>1, <3>2, IdleType
            DEF CommitDelete, End, Advance, CommitSource, At
  <2> QED BY <1>4, <2>2, <2>4, <2>5, <2>6, <2>7, <2>8, <2>9, <2>10, <2>11, <2>12, <2>13
<1>5. ASSUME NEW h \in Handler, Abort(h)
      PROVE  TypeOK' /\ HistoryKept
  BY <1>5, IdleType, KeepRevisions DEF Abort, End, Advance
<1> QED BY <1>1, <1>2, <1>3, <1>4, <1>5 DEF Next

-----------------------------------------------------------------------------
(* What a step leaves alone. *)

\* A handler changes its own local state, the rows and events of its own request,
\* and never takes an id back.
LEMMA Frame ==
  ASSUME TypeOK, NEW h \in Handler, Begin(h) \/ Continue(h) \/ Abort(h)
  PROVE  /\ \A g \in Handler \ {h} : tx'[g] = tx[g]
         /\ \A r \in RequestId : r # Target(h) =>
              /\ requests'[r] = requests[r]
              /\ \A c \in EventCode : events'[c][r] = events[c][r]
         /\ nextId' \in {nextId, nextId + 1}
<1> USE DEF TypeOK, Advance, End
<1>1. CASE Begin(h)
  BY <1>1 DEF Begin, BeginCreate, BeginMerge, BeginDelete, BeginEdit, BeginUpload
<1>2. CASE Continue(h)
  <2>1. CASE CommitCreate(h)
    BY <2>1 DEF CommitCreate, Event
  <2>2. CASE CommitEdits(h)
    BY <2>2 DEF CommitEdits
  <2>3. CASE CommitMerge(h)
    BY <2>3 DEF CommitMerge, Event
  <2>4. CASE CommitDelete(h)
    BY <2>4 DEF CommitDelete, Event
  <2> QED BY <1>2, <2>1, <2>2, <2>3, <2>4
          DEF Continue, Export, ExportFails, LoadEntries, ReadMap, LoadDiff, LoadValues,
              Checkout, CommitSource
<1>3. CASE Abort(h)
  BY <1>3 DEF Abort
<1> QED BY <1>1, <1>2, <1>3

\* A handler that goes on either ends or keeps working on the same request.
LEMMA ContinueLocal ==
  ASSUME TypeOK, NEW h \in Handler, Continue(h)
  PROVE  /\ ~At(h, "idle")
         /\ \/ tx'[h] = Idle
            \/ /\ tx'[h].request = tx[h].request
               /\ tx'[h].version = tx[h].version
<1> USE DEF Advance, End, At
<1>1. tx[h] \in Tx /\ tx \in [Handler -> Tx]
  BY DEF TypeOK
<1>2. CASE CommitCreate(h) \/ CommitEdits(h) \/ CommitMerge(h) \/ CommitDelete(h)
  BY <1>1, <1>2 DEF CommitCreate, CommitEdits, CommitMerge, CommitDelete
<1>3. CASE Export(h)
  BY <1>1, <1>3 DEF Export, Tx
<1>4. CASE ExportFails(h)
  BY <1>1, <1>4 DEF ExportFails, Tx
<1>5. CASE LoadEntries(h)
  <2> DEFINE found == [k \in Key |-> requests[Target(h)].entries[k].rows]
  <2>1. ~At(h, "idle") /\ tx' = [tx EXCEPT ![h] =
                                   [tx[h] EXCEPT !.step = "writing", !.rows = found]]
    BY <1>5 DEF LoadEntries
  <2> HIDE DEF found
  <2> QED BY <1>1, <2>1 DEF Tx
<1>6. CASE ReadMap(h)
  BY <1>1, <1>6 DEF ReadMap, Tx
<1>7. CASE LoadDiff(h) \/ LoadValues(h)
  <2>1. PICK d, keys : Loads(h, d, keys)
    BY <1>7, LoadsLocal
  <2> QED BY <1>1, <2>1 DEF Loads, Tx
<1>8. CASE Checkout(h)
  BY <1>1, <1>8 DEF Checkout, Tx
<1>9. CASE CommitSource(h)
  <2>1. /\ ~At(h, "idle")
        /\ \/ tx' = [tx EXCEPT ![h] = [tx[h] EXCEPT !.step = "written",
                                                   !.committed = Latest + 1]]
           \/ tx' = [tx EXCEPT ![h] = [tx[h] EXCEPT !.step = "written",
                                                   !.committed = NoRevision]]
    BY <1>9 DEF CommitSource
  <2> QED BY <1>1, <2>1 DEF Tx
<1> QED BY <1>2, <1>3, <1>4, <1>5, <1>6, <1>7, <1>8, <1>9 DEF Continue

\* In the initial states no handler knows anything and no event was sent.
LEMMA InitKnow == Init => HandlersKnow /\ EventsTellTheStatus
  BY DEF Init, HandlersKnow, FreshIds, TargetsAllocated, CreationsAlone,
         TargetsCreated, RevisionsExist, ExportedDiffs, EventsTellTheStatus,
         MergersExported, Merging,
         Unused, Present, NoRow, At, Target, Creating, Idle, EventCode

\* Ids that were not handed out yet stay unused.
LEMMA FreshIdsStep ==
  ASSUME TypeOK, HandlersKnow, [Next]_vars
  PROVE  FreshIds'
<1> SUFFICES ASSUME NEW r \in RequestId, r >= nextId'
             PROVE  Unused(r)'
  BY DEF FreshIds
<1> USE DEF TypeOK, HandlersKnow, FreshIds, TargetsAllocated, Unused, Present,
            RequestId
<1>1. CASE UNCHANGED <<requests, nextId, events>>
  <2>1. r >= nextId
    BY <1>1
  <2>2. Unused(r)
    BY <2>1
  <2> QED BY <1>1, <2>2
<1>2. CASE Developer \/ UNCHANGED vars
  <2>1. UNCHANGED <<requests, nextId, events>>
    BY <1>2 DEF Developer, vars
  <2> QED BY <1>1, <2>1
<1>3. ASSUME NEW h \in Handler, Begin(h) \/ Continue(h) \/ Abort(h)
      PROVE  Unused(r)'
  <2>0. nextId' \in {nextId, nextId + 1}
    BY <1>3, Frame
  <2>1. r >= nextId /\ Unused(r)
    BY <2>0
  <2>2. CASE r # Target(h)
    <3>1. /\ requests'[r] = requests[r]
          /\ \A c \in EventCode : events'[c][r] = events[c][r]
      BY <1>3, <2>2, Frame
    <3> QED BY <2>1, <3>1
  <2>3. CASE r = Target(h)
    <3>1. At(h, "idle")
      BY <2>1, <2>3
    <3>2. UNCHANGED <<requests, events>>
      BY <1>3, <3>1
         DEF Begin, BeginCreate, BeginMerge, BeginDelete, BeginEdit, BeginUpload,
             Continue, Export, ExportFails, CommitCreate, LoadEntries, CommitEdits,
             ReadMap, LoadDiff, LoadValues, Checkout, CommitSource, CommitMerge, CommitDelete,
             Abort, At
    <3> QED BY <2>1, <3>2
  <2> QED BY <2>2, <2>3
<1> QED BY <1>1, <1>2, <1>3 DEF Next

\* Every handler at work has an id that was handed out.
LEMMA TargetsAllocatedStep ==
  ASSUME TypeOK, HandlersKnow, [Next]_vars
  PROVE  TargetsAllocated'
<1> USE DEF TypeOK, HandlersKnow, FreshIds, TargetsAllocated
<1>1. CASE UNCHANGED vars
  BY <1>1 DEF vars, At, Target
<1>2. CASE Developer
  BY <1>2 DEF Developer, At, Target
<1>3. ASSUME NEW h \in Handler, Begin(h) \/ Continue(h) \/ Abort(h)
      PROVE  TargetsAllocated'
  <2>1. ASSUME NEW g \in Handler \ {h}, ~At(g, "idle")'
        PROVE  Target(g)' \in 1 .. nextId' - 1
    BY <1>3, <2>1, Frame DEF At, Target
  <2>2. ASSUME ~At(h, "idle")'
        PROVE  Target(h)' \in 1 .. nextId' - 1
    <3>1. CASE Begin(h)
      <4>1. ASSUME NEW v \in Version, BeginCreate(h, v)
            PROVE  Target(h)' = nextId /\ nextId' = nextId + 1
        BY <4>1 DEF BeginCreate, Advance, Idle, Target
      <4>2. ASSUME NEW r \in RequestId, BeginMerge(h, r) \/ BeginDelete(h, r)
            PROVE  Target(h)' = r /\ Present(r) /\ nextId' = nextId
        BY <4>2 DEF BeginMerge, BeginDelete, Advance, Idle, Target, Exported, Present
      <4>3. ASSUME NEW r \in RequestId, NEW e \in Editions,
                   BeginEdit(h, r, e[1], e[2], e[3])
            PROVE  Target(h)' = r /\ Present(r) /\ nextId' = nextId
        BY <4>3 DEF BeginEdit, Advance, Idle, Target, Exported, Present
      <4>4. ASSUME NEW r \in RequestId, NEW response \in Responses,
                   BeginUpload(h, r, response)
            PROVE  Target(h)' = r /\ Present(r) /\ nextId' = nextId
        BY <4>4 DEF BeginUpload, Advance, Idle, Target, Exported, Present
      <4>5. ASSUME NEW r \in RequestId, Present(r)
            PROVE  r \in 1 .. nextId - 1
        BY <4>5 DEF Unused, RequestId
      <4> QED BY <3>1, <4>1, <4>2, <4>3, <4>4, <4>5 DEF Begin
    <3>2. CASE Continue(h)
      <4>1. At(h, "idle")' \/ (Target(h)' = Target(h) /\ ~At(h, "idle"))
        BY <3>2, ContinueLocal DEF Idle, At, Target
      <4>2. nextId' = nextId
        BY <3>2
           DEF Continue, Export, ExportFails, CommitCreate, LoadEntries, CommitEdits,
               ReadMap, LoadDiff, LoadValues, Checkout, CommitSource, CommitMerge, CommitDelete
      <4> QED BY <2>2, <4>1, <4>2
    <3>3. CASE Abort(h)
      BY <2>2, <3>3 DEF Abort, End, Advance, Idle, At
    <3> QED BY <1>3, <3>1, <3>2, <3>3
  <2> QED BY <2>1, <2>2
<1> QED BY <1>1, <1>2, <1>3 DEF Next

\* A handler that begins was idle and changes neither the source nor the rows: it
\* creates a fresh request, or works on one that is present.
LEMMA BeginLocal ==
  ASSUME TypeOK, NEW h \in Handler, Begin(h)
  PROVE  /\ At(h, "idle")
         /\ UNCHANGED <<repo, requests, events>>
         /\ \/ /\ tx'[h].step = "creating"
               /\ tx'[h].request = nextId
               /\ tx'[h].version \in Version
               /\ nextId \in RequestId
            \/ /\ tx'[h].step \in {"merging", "deleting", "editing"}
               /\ tx'[h].request \in RequestId
               /\ Present(tx'[h].request)
<1> USE DEF TypeOK, Advance, At, Exported, Present
<1>1. ASSUME NEW v \in Version, BeginCreate(h, v)
      PROVE  /\ At(h, "idle")
             /\ UNCHANGED <<repo, requests, events>>
             /\ tx'[h].step = "creating"
             /\ tx'[h].request = nextId
             /\ tx'[h].version \in Version
             /\ nextId \in RequestId
  BY <1>1 DEF BeginCreate, Idle
<1>2. ASSUME NEW r \in RequestId, BeginMerge(h, r) \/ BeginDelete(h, r)
      PROVE  /\ At(h, "idle")
             /\ UNCHANGED <<repo, requests, events>>
             /\ tx'[h].step \in {"merging", "deleting"}
             /\ tx'[h].request = r
             /\ Present(r)
  BY <1>2 DEF BeginMerge, BeginDelete, Idle
<1>3. ASSUME NEW r \in RequestId, NEW e \in Editions,
             BeginEdit(h, r, e[1], e[2], e[3])
      PROVE  /\ At(h, "idle")
             /\ UNCHANGED <<repo, requests, events>>
             /\ tx'[h].step = "editing"
             /\ tx'[h].request = r
             /\ Present(r)
  BY <1>3 DEF BeginEdit, Idle
<1>4. ASSUME NEW r \in RequestId, NEW response \in Responses,
             BeginUpload(h, r, response)
      PROVE  /\ At(h, "idle")
             /\ UNCHANGED <<repo, requests, events>>
             /\ tx'[h].step = "editing"
             /\ tx'[h].request = r
             /\ Present(r)
  BY <1>4 DEF BeginUpload, Idle
<1> HIDE DEF Present, At
<1>5. CASE \E v \in Version : BeginCreate(h, v)
  BY <1>1, <1>5
<1>6. CASE \E r \in RequestId : BeginMerge(h, r) \/ BeginDelete(h, r)
  BY <1>2, <1>6
<1>7. CASE \E r \in RequestId, e \in Editions : BeginEdit(h, r, e[1], e[2], e[3])
  BY <1>3, <1>7
<1>8. CASE \E r \in RequestId, response \in Responses : BeginUpload(h, r, response)
  BY <1>4, <1>8
<1> QED BY <1>5, <1>6, <1>7, <1>8 DEF Begin

\* A handler that goes on without ending commits nothing in the database, and is
\* creating a request if and only if it already was.
LEMMA ContinueStays ==
  ASSUME TypeOK, NEW h \in Handler, Continue(h), ~At(h, "idle")'
  PROVE  /\ UNCHANGED <<requests, events>>
         /\ tx'[h].request = tx[h].request
         /\ tx'[h].version = tx[h].version
         /\ Creating(h)' <=> Creating(h)
         /\ Merging(h)' => Merging(h)
<1>1. tx[h] \in Tx /\ tx \in [Handler -> Tx]
  BY DEF TypeOK
<1>2. ~(CommitCreate(h) \/ CommitEdits(h) \/ CommitMerge(h) \/ CommitDelete(h))
  BY <1>1 DEF CommitCreate, CommitEdits, CommitMerge, CommitDelete, End, Advance,
              Idle, At
<1>3. UNCHANGED <<requests, events>>
  BY <1>2 DEF Continue, Export, ExportFails, LoadEntries, ReadMap, LoadDiff, LoadValues,
              Checkout, CommitSource
<1>4. /\ tx'[h].request = tx[h].request
      /\ tx'[h].version = tx[h].version
  BY ContinueLocal DEF Idle, At
<1>5. (Creating(h)' <=> Creating(h)) /\ (Merging(h)' => Merging(h))
  <2> USE DEF Creating, Merging, At, Advance
  <2>1. CASE Export(h)
    BY <1>1, <2>1 DEF Export, Tx
  <2>2. CASE ExportFails(h)
    BY <1>1, <2>2 DEF ExportFails, Tx
  <2>3. CASE LoadEntries(h)
    <3> DEFINE found == [k \in Key |-> requests[Target(h)].entries[k].rows]
    <3>1. /\ tx[h].step = "editing"
          /\ tx' = [tx EXCEPT ![h] = [tx[h] EXCEPT !.step = "writing",
                                                   !.rows = found]]
      BY <2>3 DEF LoadEntries
    <3> HIDE DEF found
    <3>2. tx'[h] = [tx[h] EXCEPT !.step = "writing", !.rows = found]
      BY <1>1, <3>1
    <3>3. tx'[h].step = "writing"
      BY <1>1, <3>2 DEF Tx
    <3> QED BY <3>1, <3>3
  <2>4. CASE ReadMap(h)
    BY <1>1, <2>4 DEF ReadMap, Tx
  <2>5. CASE LoadDiff(h) \/ LoadValues(h)
    <3>1. PICK d, keys : Loads(h, d, keys)
      BY <2>5, LoadsLocal
    <3>2. tx'[h].step = "diffLoaded"
      BY <1>1, <3>1 DEF Loads, Tx
    <3> QED BY <3>1, <3>2 DEF Loads
  <2>6. CASE Checkout(h)
    BY <1>1, <2>6 DEF Checkout, Tx
  <2>7. CASE CommitSource(h)
    <3>1. /\ tx[h].step = "checkedOut"
          /\ \/ tx' = [tx EXCEPT ![h] = [tx[h] EXCEPT !.step = "written",
                                                     !.committed = Latest + 1]]
             \/ tx' = [tx EXCEPT ![h] = [tx[h] EXCEPT !.step = "written",
                                                     !.committed = NoRevision]]
      BY <2>7 DEF CommitSource
    <3>2. \/ tx'[h] = [tx[h] EXCEPT !.step = "written", !.committed = Latest + 1]
          \/ tx'[h] = [tx[h] EXCEPT !.step = "written", !.committed = NoRevision]
      BY <1>1, <3>1
    <3>3. tx'[h].step = "written"
      BY <1>1, <3>2 DEF Tx
    <3> QED BY <3>1, <3>3
  <2> QED BY <1>2, <2>1, <2>2, <2>3, <2>4, <2>5, <2>6, <2>7 DEF Continue
<1> QED BY <1>3, <1>4, <1>5

\* The same two facts for a rollback: the handler is idle, nothing is committed.
LEMMA AbortLocal ==
  ASSUME TypeOK, NEW h \in Handler, Abort(h)
  PROVE  At(h, "idle")' /\ UNCHANGED <<repo, requests, nextId, events>>
  BY DEF Abort, End, Advance, At, Idle, TypeOK

\* A handler that works on a request shares it with no creation.
LEMMA CreationOwnsTarget ==
  ASSUME TypeOK, HandlersKnow, NEW g \in Handler, NEW h \in Handler,
         Creating(g), ~At(h, "idle"), g # h
  PROVE  Target(g) # Target(h)
<1>1. Unused(Target(g))
  BY DEF HandlersKnow, CreationsAlone
<1>2. CASE Creating(h)
  BY <1>2 DEF HandlersKnow, CreationsAlone
<1>3. CASE ~Creating(h)
  BY <1>1, <1>3 DEF HandlersKnow, TargetsCreated, Unused, EventCode
<1> QED BY <1>2, <1>3

\* An id stays unused as long as its row and its events are left alone.
LEMMA UnusedKept ==
  ASSUME NEW g \in Handler, NEW r, Target(g)' = r, Unused(r),
         requests'[r] = requests[r],
         \A c \in EventCode : events'[c][r] = events[c][r]
  PROVE  Unused(Target(g))'
  BY DEF Unused, Present

\* No two creations share an id.
LEMMA CreationsAloneStep ==
  ASSUME TypeOK, HandlersKnow, [Next]_vars
  PROVE  CreationsAlone'
<1>1. CASE UNCHANGED <<requests, events, tx>>
  BY <1>1 DEF HandlersKnow, CreationsAlone, Creating, Unused, Present, At, Target
<1>2. CASE Developer \/ UNCHANGED vars
  BY <1>1, <1>2 DEF Developer, vars
<1>3. ASSUME NEW h \in Handler, Begin(h) \/ Continue(h) \/ Abort(h)
      PROVE  CreationsAlone'
  <2>1. ASSUME Creating(h)'
        PROVE  /\ tx'[h].version \in Version
               /\ Unused(Target(h))'
               /\ \A g \in Handler \ {h} :
                    Creating(g) => Target(g) # Target(h)'
    <3>1. CASE Begin(h)
      <4>1. /\ tx'[h].version \in Version
            /\ Target(h)' = nextId
            /\ nextId \in RequestId
            /\ UNCHANGED <<requests, events>>
        BY <2>1, <3>1, BeginLocal DEF Creating, At, Target
      <4>2. nextId >= nextId
        BY DEF TypeOK
      <4>3. Unused(nextId)
        BY <4>1, <4>2 DEF HandlersKnow, FreshIds
      <4>4. ASSUME NEW g \in Handler, Creating(g)
            PROVE  Target(g) \in 1 .. nextId - 1
        BY <4>4 DEF HandlersKnow, TargetsAllocated, Creating, At
      <4>5. ASSUME NEW g \in Handler, Creating(g)
            PROVE  Target(g) # nextId
        BY <4>4, <4>5 DEF TypeOK
      <4>6. Unused(Target(h))'
        BY <4>1, <4>3, UnusedKept
      <4> QED BY <4>1, <4>5, <4>6
    <3>2. CASE Continue(h)
      <4>1. /\ UNCHANGED <<requests, events>>
            /\ Target(h)' = Target(h)
            /\ tx'[h].version = tx[h].version
            /\ Creating(h)
        BY <2>1, <3>2, ContinueStays DEF Creating, At, Target
      <4>2. ~At(h, "idle")
        BY <4>1 DEF Creating, At
      <4>3. tx[h].version \in Version /\ Unused(Target(h))
        BY <4>1 DEF HandlersKnow, CreationsAlone
      <4>4. Unused(Target(h))'
        BY <4>1, <4>3, UnusedKept
      <4> QED BY <4>1, <4>2, <4>3, <4>4, CreationOwnsTarget
    <3>3. CASE Abort(h)
      BY <2>1, <3>3, AbortLocal DEF Creating, At
    <3> QED BY <1>3, <3>1, <3>2, <3>3
  <2>2. ASSUME NEW g \in Handler \ {h}, Creating(g)
        PROVE  /\ tx[g].version \in Version
               /\ Unused(Target(g))'
    <3>1. /\ tx[g].version \in Version
          /\ Unused(Target(g))
          /\ Target(g) \in RequestId
      BY <2>2, TargetType DEF HandlersKnow, CreationsAlone, Creating, At
    <3>2. CASE At(h, "idle")
      <4>1. UNCHANGED <<requests, events>>
        BY <1>3, <3>2, BeginLocal, ContinueLocal, AbortLocal
      <4>2. Target(g)' = Target(g)
        BY <1>3, Frame DEF Target
      <4> QED BY <3>1, <4>1, <4>2, UnusedKept
    <3>3. CASE ~At(h, "idle")
      <4>1. Target(g) # Target(h)
        BY <2>2, <3>3, CreationOwnsTarget
      <4>2. /\ requests'[Target(g)] = requests[Target(g)]
            /\ \A c \in EventCode : events'[c][Target(g)] = events[c][Target(g)]
        BY <1>3, <3>1, <4>1, Frame
      <4>3. Target(g)' = Target(g)
        BY <1>3, Frame DEF Target
      <4> QED BY <3>1, <4>2, <4>3, UnusedKept
    <3> QED BY <3>1, <3>2, <3>3
  <2>3. \A g \in Handler \ {h} : tx'[g] = tx[g]
    BY <1>3, Frame
  <2>4. \A g \in Handler \ {h} : Creating(g)' <=> Creating(g)
    BY <2>3 DEF Creating
  <2>5. \A g \in Handler \ {h} : Target(g)' = Target(g)
    BY <2>3 DEF Target
  <2>6. ASSUME NEW g \in Handler, Creating(g)'
        PROVE  tx'[g].version \in Version /\ Unused(Target(g))'
    BY <2>1, <2>2, <2>3, <2>4, <2>6
  <2>7. ASSUME NEW g \in Handler, NEW f \in Handler, Creating(g)', Creating(f)',
               Target(f)' = Target(g)'
        PROVE  f = g
    <3>1. CASE g = h
      BY <2>1, <2>4, <2>5, <2>7, <3>1
    <3>2. CASE f = h
      BY <2>1, <2>4, <2>5, <2>7, <3>2
    <3>3. CASE g # h /\ f # h
      BY <2>4, <2>5, <2>7, <3>3 DEF CreationsAlone, HandlersKnow
    <3> QED BY <3>1, <3>2, <3>3
  <2> QED BY <2>6, <2>7 DEF CreationsAlone
<1> QED BY <1>2, <1>3 DEF Next

\* Only the commit of a creation adds a CREATED event, with the row.
LEMMA CreatedEvents ==
  ASSUME TypeOK, HandlersKnow, [Next]_vars, NEW r \in RequestId
  PROVE  \/ events'["CREATED"][r] = events["CREATED"][r]
         \/ Unused(r) /\ events'["CREATED"][r] = 1 /\ Present(r)'
<1> USE DEF TypeOK, EventCode, Event
<1>1. CASE UNCHANGED events
  BY <1>1
<1>2. CASE Developer \/ UNCHANGED vars
  BY <1>1, <1>2 DEF Developer, vars
<1>3. ASSUME NEW h \in Handler, Begin(h) \/ Abort(h)
      PROVE  UNCHANGED events
  BY <1>3, BeginLocal, AbortLocal
<1>4. ASSUME NEW h \in Handler, Continue(h)
      PROVE  \/ events'["CREATED"][r] = events["CREATED"][r]
             \/ Unused(r) /\ events'["CREATED"][r] = 1 /\ Present(r)'
  <2>1. CASE CommitCreate(h)
    <3>1. Unused(Target(h))
      BY <2>1 DEF CommitCreate, HandlersKnow, CreationsAlone, Creating, At
    <3>2. CASE r = Target(h)
      <4>1. requests'[r].status # "NONE"
        BY <2>1, <3>2 DEF CommitCreate, NewRow
      <4> QED BY <2>1, <3>1, <3>2, <4>1 DEF CommitCreate, Unused, Present
    <3>3. CASE r # Target(h)
      BY <2>1, <3>3 DEF CommitCreate
    <3> QED BY <3>2, <3>3
  <2>2. CASE CommitMerge(h)
    BY <2>2 DEF CommitMerge
  <2>3. CASE CommitDelete(h)
    BY <2>3 DEF CommitDelete
  <2> QED BY <1>1, <1>4, <2>1, <2>2, <2>3
          DEF Continue, Export, ExportFails, LoadEntries, CommitEdits, ReadMap,
              LoadDiff, LoadValues, Checkout, CommitSource
<1> QED BY <1>1, <1>2, <1>3, <1>4 DEF Next

\* An operation other than a creation works on a request that was created.
LEMMA TargetsCreatedStep ==
  ASSUME TypeOK, HandlersKnow, EventsTellTheStatus, [Next]_vars
  PROVE  TargetsCreated'
<1> SUFFICES ASSUME NEW g \in Handler, ~At(g, "idle")', ~Creating(g)'
             PROVE  (events["CREATED"][Target(g)])' = 1
  BY DEF TargetsCreated
<1>1. ASSUME NEW r \in RequestId, events["CREATED"][r] = 1
      PROVE  events'["CREATED"][r] = 1
  BY <1>1, CreatedEvents DEF Unused, EventCode
<1>2. ASSUME tx'[g] = tx[g]
      PROVE  (events["CREATED"][Target(g)])' = 1
  <2>1. ~At(g, "idle") /\ ~Creating(g)
    BY <1>2 DEF At, Creating
  <2>2. Target(g) \in RequestId /\ events["CREATED"][Target(g)] = 1
    BY <2>1, TargetType DEF HandlersKnow, TargetsCreated
  <2>3. Target(g)' = Target(g)
    BY <1>2 DEF Target
  <2> QED BY <1>1, <2>2, <2>3
<1>3. CASE Developer \/ UNCHANGED vars
  BY <1>2, <1>3 DEF Developer, vars
<1>4. ASSUME NEW h \in Handler, Begin(h) \/ Continue(h) \/ Abort(h)
      PROVE  (events["CREATED"][Target(g)])' = 1
  <2>1. CASE g # h
    BY <1>2, <1>4, <2>1, Frame
  <2>2. CASE g = h /\ Begin(h)
    <3>1. Target(h)' \in RequestId /\ Present(tx'[h].request)
      BY <2>2, BeginLocal DEF Creating, Target
    <3> QED BY <1>1, <2>2, <3>1 DEF EventsTellTheStatus, Target
  <2>3. CASE g = h /\ Continue(h)
    <3>1. /\ ~At(h, "idle")
          /\ ~Creating(h)
          /\ Target(h)' = Target(h)
      BY <2>3, ContinueStays, ContinueLocal DEF Target
    <3>2. Target(h) \in RequestId /\ events["CREATED"][Target(h)] = 1
      BY <3>1, TargetType DEF HandlersKnow, TargetsCreated
    <3> QED BY <1>1, <2>3, <3>1, <3>2
  <2>4. CASE g = h /\ Abort(h)
    BY <2>4, AbortLocal
  <2> QED BY <1>4, <2>1, <2>2, <2>3, <2>4
<1> QED BY <1>3, <1>4 DEF Next

\* Revisions a handler has read, checked out or committed stay in the source.
LEMMA RevisionsExistStep ==
  ASSUME TypeOK, HandlersKnow, [Next]_vars
  PROVE  RevisionsExist'
<1> DEFINE Reads(g)   == tx[g].step \in {"exported", "mapRead", "diffLoaded",
                                        "checkedOut", "written"}
           Writes(g)  == tx[g].step \in {"checkedOut", "written"}
           Written(g) == At(g, "written") /\ tx[g].committed # NoRevision
           Known(g) == /\ Reads(g) => tx[g].read \in 1 .. Latest
                       /\ Writes(g) => tx[g].checkout \in 1 .. Latest
                       /\ Written(g) => /\ tx[g].committed
                                            \in tx[g].checkout + 1 .. Latest
                                       /\ repo[tx[g].committed].by = Target(g)
<1> SUFFICES ASSUME NEW g \in Handler PROVE Known(g)'
  BY DEF RevisionsExist
<1>1. Known(g)
  BY DEF HandlersKnow, RevisionsExist
<1>2. SourceTypeOK /\ HistoryKept /\ Latest \in Nat
  BY StepType, LatestType DEF TypeOK
<1>3. ASSUME tx'[g].step = tx[g].step, tx'[g].read = tx[g].read,
             tx'[g].checkout = tx[g].checkout, tx'[g].committed = tx[g].committed,
             tx'[g].request = tx[g].request
      PROVE  Known(g)'
  <2>1. tx[g].step = "written" => tx[g].checkout \in 1 .. Latest
    BY <1>1
  <2>2. Written(g) => /\ tx[g].committed \in 1 .. Latest
                      /\ tx[g].committed \in tx[g].checkout + 1 .. Latest
    BY <1>1, <1>2, <2>1 DEF At
  <2>3. Written(g) => /\ repo'[tx[g].committed] = repo[tx[g].committed]
                      /\ tx[g].committed \in 1 .. Latest'
    BY <1>2, <2>2, HistoryFacts
  <2>4. Written(g) => tx[g].committed \in tx[g].checkout + 1 .. Latest'
    BY <1>2, <2>1, <2>2, <2>3 DEF At
  <2> QED BY <1>1, <1>2, <1>3, <2>3, <2>4, HistoryFacts DEF At, Target
<1>4. ASSUME ~Reads(g)'
      PROVE  Known(g)'
  BY <1>4 DEF At
<1>5. CASE Developer \/ UNCHANGED vars
  BY <1>3, <1>5 DEF Developer, vars
<1>6. ASSUME NEW h \in Handler, Begin(h) \/ Continue(h) \/ Abort(h), g # h
      PROVE  Known(g)'
  BY <1>3, <1>6, Frame
<1>7. ASSUME Begin(g) PROVE Known(g)'
  BY <1>4, <1>7, BeginLocal
<1>8. ASSUME Abort(g) PROVE Known(g)'
  BY <1>4, <1>8, AbortLocal DEF At
<1>9. ASSUME Continue(g) PROVE Known(g)'
  <2> USE DEF Advance, At, Target
  <2>1. tx[g] \in Tx /\ tx \in [Handler -> Tx] /\ Latest \in 1 .. Latest
    BY LatestType DEF TypeOK
  <2>2. UNCHANGED repo => Latest' = Latest
    BY DEF Latest
  <2>3. ASSUME tx'[g].step \in {"exported", "mapRead"}, tx'[g].read = Latest,
               UNCHANGED repo
        PROVE  Known(g)'
    BY <2>1, <2>2, <2>3
  <2>10. CASE Export(g)
    <3> DEFINE diff == Diff(MapAt(tx[g].version), LatestMap)
    <3>1. /\ tx'[g] = [tx[g] EXCEPT !.step = "exported", !.read = Latest,
                                    !.diff = diff]
          /\ UNCHANGED repo
      BY <2>1, <2>10 DEF Export
    <3> HIDE DEF diff
    <3>2. tx'[g].step = "exported" /\ tx'[g].read = Latest
      BY <2>1, <3>1 DEF Tx
    <3> QED BY <2>3, <3>1, <3>2
  <2>11. CASE ReadMap(g)
    <3>1. /\ tx'[g] = [tx[g] EXCEPT !.step = "mapRead", !.read = Latest]
          /\ UNCHANGED repo
      BY <2>1, <2>11 DEF ReadMap
    <3>2. tx'[g].step = "mapRead" /\ tx'[g].read = Latest
      BY <2>1, <3>1 DEF Tx
    <3> QED BY <2>3, <3>1, <3>2
  <2>4. CASE ExportFails(g)
    <3>1. tx'[g].step = "failed"
      BY <2>1, <2>4 DEF ExportFails, Tx
    <3> QED BY <1>4, <3>1
  <2>5. CASE LoadEntries(g)
    <3> DEFINE found == [k \in Key |-> requests[Target(g)].entries[k].rows]
    <3>1. tx'[g] = [tx[g] EXCEPT !.step = "writing", !.rows = found]
      BY <2>1, <2>5 DEF LoadEntries
    <3> HIDE DEF found
    <3>2. tx'[g].step = "writing"
      BY <2>1, <3>1 DEF Tx
    <3> QED BY <1>4, <3>2
  <2>6. CASE LoadDiff(g) \/ LoadValues(g)
    <3>0. PICK d, keys : Loads(g, d, keys)
      BY <2>6, LoadsLocal
    <3>1. /\ tx[g].step \in {"mapRead", "diffLoaded"}
          /\ tx'[g].step = "diffLoaded"
          /\ tx'[g].read = tx[g].read
          /\ UNCHANGED repo
      BY <2>1, <3>0 DEF Loads, Tx
    <3> QED BY <1>1, <2>2, <3>1
  <2>7. CASE Checkout(g)
    <3>1. /\ tx[g].step = "diffLoaded"
          /\ tx'[g].step = "checkedOut"
          /\ tx'[g].read = tx[g].read
          /\ tx'[g].checkout = Latest
          /\ UNCHANGED repo
      BY <2>1, <2>7 DEF Checkout, Tx
    <3> QED BY <1>1, <2>1, <2>2, <3>1
  <2>8. CASE CommitSource(g)
    <3>1. /\ Target(g) \in Author
          /\ tx[g].diff \in Diffs
          /\ tx[g].step = "checkedOut"
          /\ tx[g].read \in 1 .. Latest
          /\ tx[g].checkout \in 1 .. Latest
      BY <1>1, <2>1, <2>8, TargetType DEF CommitSource, Tx, RequestId
    <3>2. /\ tx'[g].step = "written"
          /\ tx'[g].read = tx[g].read
          /\ tx'[g].checkout = tx[g].checkout
          /\ tx'[g].request = tx[g].request
      <4>1. PICK n : tx'[g] = [tx[g] EXCEPT !.step = "written", !.committed = n]
        BY <2>1, <2>8 DEF CommitSource
      <4> QED BY <2>1, <4>1 DEF Tx
    <3>3. tx'[g].read \in 1 .. Latest' /\ tx'[g].checkout \in 1 .. Latest'
      BY <1>2, <3>1, <3>2, HistoryFacts
    <3>4. CASE CommitRevision(MergedMap(g), tx[g].checkout, Target(g))
               /\ tx' = [tx EXCEPT ![g] = [tx[g] EXCEPT !.step = "written",
                                                       !.committed = Latest + 1]]
      <4>1. MergedMap(g) \in Map
        BY <3>1, <1>2, MapAtType, ApplyDiffType DEF MergedMap
      <4>2. Latest' = Latest + 1 /\ repo'[Latest + 1].by = Target(g)
        BY <1>2, <3>1, <3>4, <4>1, CommitRevisionType
      <4>3. tx'[g].committed = Latest + 1
        BY <2>1, <3>4 DEF Tx
      <4>4. Latest + 1 \in tx[g].checkout + 1 .. Latest'
        BY <1>2, <3>1, <4>2
      <4> QED BY <3>2, <3>3, <4>2, <4>3, <4>4
    <3>5. CASE tx' = [tx EXCEPT ![g] = [tx[g] EXCEPT !.step = "written",
                                                   !.committed = NoRevision]]
      <4>1. tx'[g].committed = NoRevision
        BY <2>1, <3>5 DEF Tx
      <4> QED BY <3>2, <3>3, <4>1
    <3> QED BY <2>8, <3>4, <3>5 DEF CommitSource
  <2>9. CASE CommitCreate(g) \/ CommitEdits(g) \/ CommitMerge(g) \/ CommitDelete(g)
    <3>1. tx'[g].step = "idle"
      BY <2>1, <2>9
         DEF CommitCreate, CommitEdits, CommitMerge, CommitDelete, End, Idle
    <3> QED BY <1>4, <3>1
  <2> QED BY <1>9, <2>4, <2>5, <2>6, <2>7, <2>8, <2>9, <2>10, <2>11 DEF Continue
<1> QED BY <1>5, <1>6, <1>7, <1>8, <1>9 DEF Next

\* The diff of a creation stays the difference of the revisions it read.
LEMMA ExportedDiffsStep ==
  ASSUME TypeOK, HandlersKnow, [Next]_vars
  PROVE  ExportedDiffs'
<1> DEFINE Exact(g, v, r) == /\ tx[g].version = v /\ tx[g].read = r
                            /\ v <= r
                            /\ tx[g].diff = Diff(MapAt(v), MapAt(r))
<1> SUFFICES ASSUME NEW g \in Handler, At(g, "exported")'
             PROVE  \E v, r \in 1 .. Latest : Exact(g, v, r)'
  BY DEF ExportedDiffs
<1>1. SourceTypeOK /\ HistoryKept
  BY StepType DEF TypeOK
<1>2. ASSUME NEW v \in 1 .. Latest, NEW r \in 1 .. Latest, v <= r,
             tx'[g].version = v, tx'[g].read = r,
             tx'[g].diff = Diff(MapAt(v), MapAt(r))
      PROVE  Exact(g, v, r)'
  BY <1>1, <1>2, HistoryFacts
<1>3. ASSUME tx[g].step = "exported", tx'[g].version = tx[g].version,
             tx'[g].read = tx[g].read, tx'[g].diff = tx[g].diff
      PROVE  \E v, r \in 1 .. Latest : Exact(g, v, r)'
  <2>1. /\ tx[g].version <= tx[g].read
        /\ tx[g].diff = Diff(MapAt(tx[g].version), MapAt(tx[g].read))
        /\ tx[g].read \in 1 .. Latest
        /\ tx[g].version \in Version
    BY <1>3 DEF HandlersKnow, ExportedDiffs, RevisionsExist, CreationsAlone, Creating, At
  <2>2. tx[g].version \in 1 .. Latest
    BY <2>1, LatestType, <1>1 DEF Version
  <2> QED BY <1>2, <1>3, <2>1, <2>2
<1>4. CASE Developer \/ UNCHANGED vars
  BY <1>3, <1>4 DEF Developer, vars, At
<1>5. ASSUME NEW h \in Handler, Begin(h) \/ Continue(h) \/ Abort(h), g # h
      PROVE  \E v, r \in 1 .. Latest : Exact(g, v, r)'
  BY <1>3, <1>5, Frame DEF At
<1>6. ~Begin(g) /\ ~Abort(g)
  BY BeginLocal, AbortLocal DEF At
<1>7. ASSUME Continue(g)
      PROVE  \E v, r \in 1 .. Latest : Exact(g, v, r)'
  <2> USE DEF Advance, At, Target
  <2>1. tx[g] \in Tx /\ tx \in [Handler -> Tx]
    BY DEF TypeOK
  <2>2. CASE Export(g)
    <3> DEFINE diff == Diff(MapAt(tx[g].version), LatestMap)
    <3>1. /\ tx'[g] = [tx[g] EXCEPT !.step = "exported", !.read = Latest,
                                    !.diff = diff]
          /\ tx[g].version <= Latest
          /\ tx[g].step = "creating"
      BY <2>1, <2>2 DEF Export
    <3>2. tx[g].version \in 1 .. Latest /\ Latest \in 1 .. Latest
      BY <1>1, <3>1, LatestType DEF HandlersKnow, CreationsAlone, Creating, Version
    <3>3. diff = Diff(MapAt(tx[g].version), MapAt(Latest))
      BY DEF LatestMap
    <3> HIDE DEF diff
    <3>4. /\ tx'[g].read = Latest
          /\ tx'[g].diff = diff
          /\ tx'[g].version = tx[g].version
      BY <2>1, <3>1 DEF Tx
    <3> QED BY <1>2, <3>1, <3>2, <3>3, <3>4
  <2>3. CASE ExportFails(g)
    BY <2>1, <2>3 DEF ExportFails, Tx
  <2>4. CASE LoadEntries(g)
    <3>1. PICK found : tx'[g] = [tx[g] EXCEPT !.step = "writing", !.rows = found]
      BY <2>1, <2>4 DEF LoadEntries
    <3> QED BY <2>1, <3>1 DEF Tx
  <2>5. CASE ReadMap(g)
    BY <2>1, <2>5 DEF ReadMap, Tx
  <2>6. CASE LoadDiff(g) \/ LoadValues(g)
    <3>1. PICK d, keys : Loads(g, d, keys)
      BY <2>6, LoadsLocal
    <3> QED BY <2>1, <3>1 DEF Loads, Tx
  <2>7. CASE Checkout(g)
    BY <2>1, <2>7 DEF Checkout, Tx
  <2>8. CASE CommitSource(g)
    <3>1. PICK n : tx'[g] = [tx[g] EXCEPT !.step = "written", !.committed = n]
      BY <2>1, <2>8 DEF CommitSource
    <3> QED BY <2>1, <3>1 DEF Tx
  <2>9. CASE CommitCreate(g) \/ CommitEdits(g) \/ CommitMerge(g) \/ CommitDelete(g)
    BY <2>1, <2>9
       DEF CommitCreate, CommitEdits, CommitMerge, CommitDelete, End, Idle
  <2> QED BY <1>7, <2>2, <2>3, <2>4, <2>5, <2>6, <2>7, <2>8, <2>9 DEF Continue
<1> QED BY <1>4, <1>5, <1>6, <1>7 DEF Next

-----------------------------------------------------------------------------
\* The ways a step changes the row of a request.
EditedRow(row, input) ==
  [row EXCEPT !.entries = [k \in Key |-> Edited(row.entries[k], input[k])]]

ClosedRow(row, version) ==
  [row EXCEPT !.status = "CLOSED", !.merge = version]

RowStep(r) ==
  \/ requests'[r] = requests[r]
  \/ \E h \in Handler : /\ At(h, "exported") \/ At(h, "failed")
                        /\ Target(h) = r
                        /\ requests'[r] = NewRow(h)
  \/ \E input \in Map : requests'[r] = EditedRow(requests[r], input)
  \/ \E h \in Handler : /\ At(h, "written")
                        /\ Target(h) = r
                        /\ Present(r)
                        /\ requests'[r] = ClosedRow(requests[r], tx[h].committed)
  \/ requests'[r] = NoRow

\* The ways a step may change the row of a request.
LEMMA RowSteps ==
  ASSUME TypeOK, HandlersKnow, [Next]_vars, NEW r \in RequestId
  PROVE  RowStep(r)
<1> USE DEF TypeOK
<1>1. CASE Developer \/ UNCHANGED vars
  BY <1>1 DEF Developer, vars, RowStep
<1>2. ASSUME NEW h \in Handler, Begin(h) \/ Continue(h) \/ Abort(h), r # Target(h)
      PROVE  RowStep(r)
  BY <1>2, Frame DEF RowStep
<1>3. ASSUME NEW h \in Handler, Begin(h) \/ Abort(h)
      PROVE  RowStep(r)
  BY <1>3, BeginLocal, AbortLocal DEF RowStep
<1>4. ASSUME NEW h \in Handler, Continue(h), r = Target(h)
      PROVE  RowStep(r)
  <2>1. CASE CommitCreate(h)
    BY <1>4, <2>1 DEF CommitCreate, RowStep
  <2>2. CASE CommitEdits(h)
    <3> DEFINE new == [k \in Key |-> Edited(requests[r].entries[k], tx[h].input[k])]
    <3>1. requests' = [requests EXCEPT ![r].entries = new]
      BY <1>4, <2>2 DEF CommitEdits
    <3>2. requests'[r] = [requests[r] EXCEPT !.entries = new]
      <4> HIDE DEF new
      <4> QED BY <3>1
    <3>3. requests'[r] = EditedRow(requests[r], tx[h].input)
      BY <3>2 DEF EditedRow
    <3>4. tx[h].input \in Map
      BY DEF Tx
    <3> QED BY <3>3, <3>4 DEF RowStep
  <2>3. CASE CommitMerge(h)
    <3>1. requests'[r] = ClosedRow(requests[r], tx[h].committed)
      BY <1>4, <2>3 DEF CommitMerge, ClosedRow
    <3> QED BY <1>4, <2>3, <3>1 DEF CommitMerge, RowStep
  <2>4. CASE CommitDelete(h)
    BY <1>4, <2>4 DEF CommitDelete, RowStep
  <2>5. CASE UNCHANGED requests
    BY <2>5 DEF RowStep
  <2> QED BY <1>4, <2>1, <2>2, <2>3, <2>4, <2>5
          DEF Continue, Export, ExportFails, LoadEntries, ReadMap, LoadDiff, LoadValues,
              Checkout, CommitSource
<1> QED BY <1>1, <1>2, <1>3, <1>4 DEF Next

\* What an edition leaves alone in a row.
LEMMA EditedRowFacts ==
  ASSUME NEW row \in Row, NEW input \in Map
  PROVE  /\ EditedRow(row, input).status = row.status
         /\ EditedRow(row, input).version = row.version
         /\ EditedRow(row, input).to = row.to
         /\ EditedRow(row, input).merge = row.merge
         /\ \A k \in Key :
              LET entry == EditedRow(row, input).entries[k]
              IN  /\ entry.type = row.entries[k].type
                  /\ entry.old = row.entries[k].old
                  /\ row.entries[k].rows \subseteq entry.rows
<1> DEFINE new == [k \in Key |-> Edited(row.entries[k], input[k])]
<1>1. EditedRow(row, input) = [row EXCEPT !.entries = new]
  BY DEF EditedRow
<1>2. \A k \in Key : /\ new[k].type = row.entries[k].type
                     /\ new[k].old = row.entries[k].old
                     /\ row.entries[k].rows \subseteq new[k].rows
  BY EditedType DEF Row, Diffs, Map
<1> HIDE DEF new
<1>3. /\ EditedRow(row, input).status = row.status
      /\ EditedRow(row, input).version = row.version
      /\ EditedRow(row, input).to = row.to
      /\ EditedRow(row, input).merge = row.merge
      /\ EditedRow(row, input).entries = new
  BY <1>1 DEF Row
<1> QED BY <1>2, <1>3

\* What closing a request leaves of its row.
LEMMA ClosedRowFacts ==
  ASSUME NEW row \in Row, NEW n
  PROVE  /\ ClosedRow(row, n).status = "CLOSED"
         /\ ClosedRow(row, n).merge = n
         /\ ClosedRow(row, n).version = row.version
         /\ ClosedRow(row, n).to = row.to
         /\ ClosedRow(row, n).entries = row.entries
  BY DEF ClosedRow, Row

-----------------------------------------------------------------------------
\* A creation never commits over the row of a request a handler merges.
LEMMA MergersExportedStep ==
  ASSUME TypeOK, HandlersKnow, EventsTellTheStatus, [Next]_vars
  PROVE  MergersExported'
<1> SUFFICES ASSUME NEW g \in Handler, Merging(g)'
             PROVE  (requests[Target(g)].status)' # "ERROR"
  BY DEF MergersExported
<1>1. ASSUME NEW r \in RequestId, requests[r].status # "ERROR",
             events["CREATED"][r] = 1
      PROVE  requests'[r].status # "ERROR"
  <2>1. RowStep(r) /\ requests[r] \in Row
    BY RowSteps DEF TypeOK
  <2>2. ASSUME NEW h \in Handler, At(h, "exported") \/ At(h, "failed"), Target(h) = r
        PROVE  FALSE
    BY <1>1, <2>2 DEF HandlersKnow, CreationsAlone, Creating, At, Unused, EventCode
  <2> QED BY <1>1, <2>1, <2>2, EditedRowFacts, ClosedRowFacts DEF RowStep, NoRow
<1>2. ASSUME Merging(g), Target(g)' = Target(g)
      PROVE  (requests[Target(g)].status)' # "ERROR"
  <2>1. ~At(g, "idle") /\ ~Creating(g)
    BY <1>2 DEF Merging, Creating, At
  <2>2. /\ Target(g) \in RequestId
        /\ events["CREATED"][Target(g)] = 1
        /\ requests[Target(g)].status # "ERROR"
    BY <1>2, <2>1, TargetType DEF HandlersKnow, TargetsCreated, MergersExported
  <2> QED BY <1>1, <1>2, <2>2
<1>3. CASE Developer \/ UNCHANGED vars
  BY <1>2, <1>3 DEF Developer, vars, Merging, Target
<1>4. ASSUME NEW h \in Handler, Begin(h) \/ Continue(h) \/ Abort(h), g # h
      PROVE  (requests[Target(g)].status)' # "ERROR"
  BY <1>2, <1>4, Frame DEF Merging, Target
<1>5. ASSUME Begin(g)
      PROVE  (requests[Target(g)].status)' # "ERROR"
  <2>1. PICK r \in RequestId : BeginMerge(g, r)
    <3> USE DEF TypeOK, Advance, Idle, Merging
    <3>1. ASSUME NEW v \in Version, BeginCreate(g, v) PROVE FALSE
      BY <3>1 DEF BeginCreate
    <3>2. ASSUME NEW r \in RequestId, BeginDelete(g, r) PROVE FALSE
      BY <3>2 DEF BeginDelete
    <3>3. ASSUME NEW r \in RequestId, NEW k, NEW l, NEW v, BeginEdit(g, r, k, l, v)
          PROVE  FALSE
      BY <3>3 DEF BeginEdit
    <3>4. ASSUME NEW r \in RequestId, NEW m, BeginUpload(g, r, m) PROVE FALSE
      BY <3>4 DEF BeginUpload
    <3> HIDE DEF TypeOK, Advance, Idle, Merging
    <3> QED BY <1>5, <3>1, <3>2, <3>3, <3>4 DEF Begin
  <2>2. Target(g)' = r /\ requests'[r].status = "EXPORTED"
    BY <2>1 DEF BeginMerge, Advance, Idle, Exported, Target, TypeOK
  <2> QED BY <2>2
<1>6. ASSUME Continue(g)
      PROVE  (requests[Target(g)].status)' # "ERROR"
  <2>1. Merging(g) /\ Target(g)' = Target(g)
    BY <1>6, ContinueStays DEF Merging, At, Target
  <2> QED BY <1>2, <2>1
<1>7. ~Abort(g)
  BY AbortLocal DEF Merging, At
<1> QED BY <1>3, <1>4, <1>5, <1>6, <1>7 DEF Next

\* Every step keeps EventsTellTheStatus.
LEMMA EventsStep ==
  ASSUME TypeOK, HandlersKnow, EventsTellTheStatus, [Next]_vars
  PROVE  EventsTellTheStatus'
<1> DEFINE Told(r) ==
      /\ events["CREATED"][r] \in {0, 1}
      /\ Present(r) <=> events["CREATED"][r] = 1 /\ events["DELETED"][r] = 0
      /\ requests[r].status = "CLOSED" => events["MERGED"][r] > 0
      /\ Present(r) /\ events["MERGED"][r] > 0 => requests[r].status = "CLOSED"
<1> SUFFICES ASSUME NEW r \in RequestId PROVE Told(r)'
  BY DEF EventsTellTheStatus
<1>1. Told(r)
  BY DEF EventsTellTheStatus
<1> USE DEF TypeOK, EventCode
<1>2. ASSUME requests'[r] = requests[r],
             \A c \in EventCode : events'[c][r] = events[c][r]
      PROVE  Told(r)'
  BY <1>1, <1>2 DEF Present
<1>3. CASE Developer \/ UNCHANGED vars
  BY <1>2, <1>3 DEF Developer, vars
<1>4. ASSUME NEW h \in Handler, Begin(h) \/ Continue(h) \/ Abort(h), r # Target(h)
      PROVE  Told(r)'
  BY <1>2, <1>4, Frame
<1>5. ASSUME NEW h \in Handler, Begin(h) \/ Abort(h)
      PROVE  Told(r)'
  BY <1>2, <1>5, BeginLocal, AbortLocal
<1>6. ASSUME NEW h \in Handler, Continue(h), r = Target(h)
      PROVE  Told(r)'
  <2>1. CASE CommitCreate(h)
    <3>1. Unused(r)
      BY <1>6, <2>1 DEF CommitCreate, HandlersKnow, CreationsAlone, Creating, At
    <3>2. requests'[r].status \in {"EXPORTED", "ERROR"}
      BY <1>6, <2>1 DEF CommitCreate, NewRow
    <3>3. /\ events'["CREATED"][r] = events["CREATED"][r] + 1
          /\ events'["DELETED"][r] = events["DELETED"][r]
          /\ events'["MERGED"][r] = events["MERGED"][r]
      BY <1>6, <2>1 DEF CommitCreate, Event
    <3> QED BY <3>1, <3>2, <3>3 DEF Unused, Present
  <2>2. CASE CommitEdits(h)
    <3>1. UNCHANGED events
      BY <2>2 DEF CommitEdits
    <3>2. requests'[r].status = requests[r].status
      <4>1. PICK d : requests' = [requests EXCEPT ![Target(h)].entries = d]
        BY <2>2 DEF CommitEdits
      <4> QED BY <1>6, <4>1 DEF Row
    <3> QED BY <1>1, <3>1, <3>2 DEF Present
  <2>3. CASE CommitMerge(h)
    <3>1. requests'[r].status = "CLOSED"
      BY <1>6, <2>3 DEF CommitMerge, Row
    <3>2. /\ events'["CREATED"][r] = events["CREATED"][r]
          /\ events'["DELETED"][r] = events["DELETED"][r]
          /\ events'["MERGED"][r] = events["MERGED"][r] + 1
      BY <1>6, <2>3 DEF CommitMerge, Event
    <3>3. Present(r)
      BY <1>6, <2>3 DEF CommitMerge
    <3> QED BY <1>1, <3>1, <3>2, <3>3 DEF Present
  <2>4. CASE CommitDelete(h)
    <3>1. requests'[r].status = "NONE"
      BY <1>6, <2>4 DEF CommitDelete, NoRow
    <3>2. /\ events'["CREATED"][r] = events["CREATED"][r]
          /\ events'["DELETED"][r] = events["DELETED"][r] + 1
      BY <1>6, <2>4 DEF CommitDelete, Event
    <3> QED BY <1>1, <3>1, <3>2 DEF Present
  <2> QED BY <1>2, <1>6, <2>1, <2>2, <2>3, <2>4
          DEF Continue, Export, ExportFails, LoadEntries, ReadMap, LoadDiff, LoadValues,
              Checkout, CommitSource
<1> QED BY <1>3, <1>4, <1>5, <1>6 DEF Next

-----------------------------------------------------------------------------
(* The theorems. *)

Inv == TypeOK /\ HandlersKnow /\ EventsTellTheStatus

\* The three facts are inductive together: the type of a commit needs the revisions
\* a handler read to exist, the ids of the handlers need the events, and the events
\* need to know which handlers create.
THEOREM Invariance == Spec => []Inv
<1>1. Init => Inv
  BY InitType, InitKnow DEF Inv
<1>2. ASSUME Inv, [Next]_vars
      PROVE  Inv'
  BY <1>2, StepType, FreshIdsStep, TargetsAllocatedStep, CreationsAloneStep,
     TargetsCreatedStep, RevisionsExistStep, ExportedDiffsStep, MergersExportedStep,
     EventsStep
     DEF Inv, HandlersKnow
<1> QED BY <1>1, <1>2, PTL DEF Spec

\* Type correctness of the service.
THEOREM TypeCorrect == Spec => []TypeOK
<1>1. Inv => TypeOK
  BY DEF Inv
<1> QED BY <1>1, Invariance, PTL

\* What a handler has read stays true until it commits, for any number of handlers.
THEOREM HandlersKnowHolds == Spec => []HandlersKnow
<1>1. Inv => HandlersKnow
  BY DEF Inv
<1> QED BY <1>1, Invariance, PTL

\* The events of a request tell its status.
THEOREM EventsHold == Spec => []EventsTellTheStatus
<1>1. Inv => EventsTellTheStatus
  BY DEF Inv
<1> QED BY <1>1, Invariance, PTL

-----------------------------------------------------------------------------
(* What the rows of the requests say of the history of the source, and the *)
(* lifecycle of the requests.                                              *)

\* Every step keeps MergeVersionIsOwnRevision: only CommitMerge sets a merge
\* version, from the revision its own commit returned.
LEMMA MergeVersionStep ==
  ASSUME Inv, MergeVersionIsOwnRevision, [Next]_vars
  PROVE  MergeVersionIsOwnRevision'
<1> DEFINE Own(r) ==
      /\ requests[r].status # "CLOSED" => requests[r].merge = NoVersion
      /\ requests[r].status = "CLOSED" /\ requests[r].merge # NoRevision =>
           /\ requests[r].merge \in 1 .. Latest
           /\ repo[requests[r].merge].by = r
<1> SUFFICES ASSUME NEW r \in RequestId PROVE Own(r)'
  BY DEF MergeVersionIsOwnRevision
<1>1. /\ Own(r)
      /\ requests[r] \in Row
      /\ SourceTypeOK
      /\ HandlersKnow
      /\ tx \in [Handler -> Tx]
  BY DEF MergeVersionIsOwnRevision, Inv, TypeOK
<1>2. HistoryKept
  BY StepType DEF Inv
<1>3. RowStep(r)
  BY RowSteps DEF Inv
<1>4. ASSUME requests'[r].status = requests[r].status,
             requests'[r].merge = requests[r].merge
      PROVE  Own(r)'
  BY <1>1, <1>2, <1>4, HistoryFacts
<1>5. ASSUME requests'[r].status # "CLOSED", requests'[r].merge = NoVersion
      PROVE  Own(r)'
  BY <1>5
<1>6. ASSUME NEW h \in Handler, requests'[r] = NewRow(h)
      PROVE  Own(r)'
  BY <1>5, <1>6 DEF NewRow
<1>7. ASSUME NEW input \in Map, requests'[r] = EditedRow(requests[r], input)
      PROVE  Own(r)'
  BY <1>1, <1>4, <1>7, EditedRowFacts
<1>8. ASSUME NEW h \in Handler, At(h, "written"), Target(h) = r,
             requests'[r] = ClosedRow(requests[r], tx[h].committed)
      PROVE  Own(r)'
  <2>1. requests'[r].status = "CLOSED" /\ requests'[r].merge = tx[h].committed
    BY <1>1, <1>8, ClosedRowFacts
  <2>2. tx[h].committed # NoRevision =>
          tx[h].committed \in 1 .. Latest /\ repo[tx[h].committed].by = r
    <3>1. tx[h].checkout \in 1 .. Latest
      BY <1>1, <1>8 DEF HandlersKnow, RevisionsExist, At
    <3>2. Latest \in Nat
      BY <1>1, LatestType
    <3> QED BY <1>1, <1>8, <3>1, <3>2 DEF HandlersKnow, RevisionsExist
  <2>3. tx[h].committed # NoRevision =>
          tx[h].committed \in 1 .. Latest' /\ repo'[tx[h].committed].by = r
    BY <1>1, <1>2, <2>2, HistoryFacts
  <2> QED BY <2>1, <2>3
<1>9. CASE requests'[r] = NoRow
  BY <1>5, <1>9 DEF NoRow
<1> QED BY <1>3, <1>4, <1>6, <1>7, <1>8, <1>9 DEF RowStep

\* The merge version of a closed request is a revision its own merges committed,
\* or the -1 of a commit that changed nothing.
THEOREM MergeVersions == Spec => []MergeVersionIsOwnRevision
<1>1. Init => MergeVersionIsOwnRevision
  BY DEF Init, MergeVersionIsOwnRevision, NoRow
<1>2. Inv /\ MergeVersionIsOwnRevision /\ [Next]_vars => MergeVersionIsOwnRevision'
  BY MergeVersionStep
<1> QED BY <1>1, <1>2, Invariance, PTL DEF Spec

-----------------------------------------------------------------------------
\* Every step keeps ExportMatchesHistory: the creation stores the difference it
\* computed, editions change neither a type nor an old value.
LEMMA ExportHistoryStep ==
  ASSUME Inv, ExportMatchesHistory, [Next]_vars
  PROVE  ExportMatchesHistory'
<1> DEFINE Between(v, w) == Diff(MapAt(v), MapAt(w))
<1>1. /\ SourceTypeOK
      /\ HandlersKnow
      /\ requests \in [RequestId -> Row]
      /\ tx \in [Handler -> Tx]
      /\ Latest \in Nat
  BY LatestType DEF Inv, TypeOK
<1>2. HistoryKept /\ TypeOK'
  BY StepType DEF Inv
<1>3. ASSUME NEW v \in 1 .. Latest, NEW w \in 1 .. Latest
      PROVE  Between(v, w)' = Between(v, w) /\ w <= Latest'
  <2>1. /\ MapAt(v)' = MapAt(v)
        /\ MapAt(w)' = MapAt(w) /\ w \in 1 .. Latest'
    BY <1>1, <1>2, HistoryFacts
  <2> QED BY <2>1 DEF Diff, DiffType, HasReference, EntryOf
<1> SUFFICES ASSUME NEW r \in RequestId, requests'[r].status \in {"EXPORTED", "CLOSED"}
             PROVE  \E v, w \in 1 .. Latest :
                      /\ requests'[r].version = v /\ requests'[r].to = w /\ v <= w
                      /\ StoresDiff(requests'[r].entries, Between(v, w))
  <2>1. ASSUME NEW r \in RequestId, NEW v \in 1 .. Latest, NEW w \in 1 .. Latest,
               requests'[r].version = v, requests'[r].to = w, v <= w,
               StoresDiff(requests'[r].entries, Between(v, w))
        PROVE  /\ requests'[r].version \in 1 .. requests'[r].to
               /\ requests'[r].to <= Latest'
               /\ StoresDiff(requests'[r].entries,
                     Diff(MapAt(requests[r].version), MapAt(requests[r].to))')
    <3>1. (Between(v, w))' = Diff(MapAt(requests[r].version), MapAt(requests[r].to))'
      BY <2>1 DEF MapAt
    <3> QED BY <1>3, <2>1, <3>1
  <2> QED BY <2>1 DEF ExportMatchesHistory
<1> HIDE DEF Between
<1>4. ASSUME requests[r].status \in {"EXPORTED", "CLOSED"}
      PROVE  /\ requests[r].version \in 1 .. Latest
             /\ requests[r].to \in 1 .. Latest
             /\ requests[r].version <= requests[r].to
             /\ StoresDiff(requests[r].entries,
                           Between(requests[r].version, requests[r].to))
  <2>1. requests[r].to \in Nat
    BY <1>1 DEF Row, NoVersion
  <2> QED BY <1>1, <1>4, <2>1 DEF ExportMatchesHistory, Between
<1>5. RowStep(r)
  BY RowSteps DEF Inv
<1>6. CASE requests'[r] = requests[r]
  BY <1>4, <1>6
<1>7. ASSUME NEW h \in Handler, At(h, "exported") \/ At(h, "failed"),
             requests'[r] = NewRow(h)
      PROVE  /\ requests'[r].version \in 1 .. Latest
             /\ requests'[r].to \in 1 .. Latest
             /\ requests'[r].version <= requests'[r].to
             /\ StoresDiff(requests'[r].entries,
                           Between(requests'[r].version, requests'[r].to))
  <2>1. At(h, "exported")
    BY <1>7 DEF NewRow
  <2>2. /\ tx[h].version <= tx[h].read
        /\ tx[h].diff = Between(tx[h].version, tx[h].read)
        /\ tx[h].read \in 1 .. Latest
        /\ tx[h].version \in Version
    BY <1>1, <2>1
       DEF HandlersKnow, ExportedDiffs, RevisionsExist, CreationsAlone, Creating,
           At, Between
  <2>3. tx[h].version \in 1 .. Latest
    BY <1>1, <2>2 DEF Version
  <2>4. /\ requests'[r].version = tx[h].version
        /\ requests'[r].to = tx[h].read
        /\ requests'[r].entries = tx[h].diff
    BY <1>7 DEF NewRow
  <2>5. StoresDiff(tx[h].diff, Between(tx[h].version, tx[h].read))
    BY <2>2 DEF StoresDiff
  <2> QED BY <2>2, <2>3, <2>4, <2>5
<1>8. ASSUME NEW input \in Map, requests'[r] = EditedRow(requests[r], input)
      PROVE  /\ requests'[r].status = requests[r].status
             /\ requests'[r].version = requests[r].version
             /\ requests'[r].to = requests[r].to
             /\ \A diff : StoresDiff(requests[r].entries, diff) =>
                           StoresDiff(requests'[r].entries, diff)
  <2>1. requests[r] \in Row
    BY <1>1
  <2> QED BY <1>8, <2>1, EditedRowFacts DEF StoresDiff
<1>9. ASSUME NEW h \in Handler, At(h, "written"), Target(h) = r, Present(r),
             requests'[r] = ClosedRow(requests[r], tx[h].committed)
      PROVE  /\ requests'[r].version = requests[r].version
             /\ requests'[r].to = requests[r].to
             /\ requests'[r].entries = requests[r].entries
             /\ requests[r].status \in {"EXPORTED", "CLOSED"}
  <2>1. requests[r] \in Row /\ requests[r].status # "ERROR"
    BY <1>1, <1>9 DEF HandlersKnow, MergersExported, Merging, At
  <2>2. requests[r].status \in {"EXPORTED", "CLOSED"}
    BY <1>9, <2>1 DEF Row, Present
  <2> QED BY <1>9, <2>1, <2>2, ClosedRowFacts
<1>10. requests'[r] # NoRow
  BY DEF NoRow
<1> QED BY <1>4, <1>5, <1>6, <1>7, <1>8, <1>9, <1>10 DEF RowStep

\* The diff of a request is, for ever, the difference of the two revisions it names.
THEOREM ExportHistory == Spec => []ExportMatchesHistory
<1>1. Init => ExportMatchesHistory
  BY DEF Init, ExportMatchesHistory, NoRow
<1>2. Inv /\ ExportMatchesHistory /\ [Next]_vars => ExportMatchesHistory'
  BY ExportHistoryStep
<1> QED BY <1>1, <1>2, Invariance, PTL DEF Spec

-----------------------------------------------------------------------------
(* The service implements the lifecycle: each row moves as the lifecycle allows,
   and a step moves one row at most.                                         *)

StatusMap == [r \in RequestId |-> StatusOf(r)]

\* How the status of one request may move.
Moves(old, new) ==
  \/ old = "NONE" /\ new \in {"EXPORTED", "ERROR"}
  \/ old = "EXPORTED" /\ new = "CLOSED"
  \/ old \in {"EXPORTED", "ERROR", "CLOSED"} /\ new = "DELETED"

\* What a step may do to the status of one request.
LEMMA StatusMoves ==
  ASSUME Inv, [Next]_vars, NEW r \in RequestId
  PROVE  StatusOf(r)' = StatusOf(r) \/ Moves(StatusOf(r), StatusOf(r)')
<1>1. /\ TypeOK /\ HandlersKnow /\ EventsTellTheStatus
      /\ requests[r] \in Row
      /\ RowStep(r)
      /\ events["CREATED"][r] \in {0, 1}
      /\ Present(r) <=> events["CREATED"][r] = 1 /\ events["DELETED"][r] = 0
  BY RowSteps DEF Inv, TypeOK, EventsTellTheStatus
<1>2. \/ events'["CREATED"][r] = events["CREATED"][r]
      \/ Unused(r) /\ events'["CREATED"][r] = 1 /\ requests'[r].status # "NONE"
  BY <1>1, CreatedEvents DEF Present
<1>4. StatusOf(r) = IF requests[r].status # "NONE" THEN requests[r].status
                    ELSE IF events["CREATED"][r] = 0 THEN "NONE" ELSE "DELETED"
  BY DEF StatusOf, Present
<1>5. StatusOf(r)' = IF requests'[r].status # "NONE" THEN requests'[r].status
                     ELSE IF events'["CREATED"][r] = 0 THEN "NONE" ELSE "DELETED"
  BY DEF StatusOf, Present
<1>6. requests[r].status \in {"NONE", "EXPORTED", "ERROR", "CLOSED"}
  BY <1>1 DEF Row
<1>7. requests[r].status # "NONE" => events["CREATED"][r] = 1
  BY <1>1 DEF Present
<1>8. EventsTellTheStatus'
  BY <1>1, EventsStep
<1>9. requests'[r].status # "NONE" => events'["CREATED"][r] = 1
  BY <1>8 DEF EventsTellTheStatus, Present
<1>10. CASE requests'[r].status = requests[r].status
  BY <1>2, <1>4, <1>5, <1>6, <1>9, <1>10 DEF Unused, Present, EventCode
<1>11. ASSUME NEW h \in Handler, At(h, "exported") \/ At(h, "failed"), Target(h) = r,
              requests'[r] = NewRow(h)
       PROVE  Moves(StatusOf(r), StatusOf(r)')
  <2>1. Unused(r)
    BY <1>1, <1>11 DEF HandlersKnow, CreationsAlone, Creating, At
  <2>2. StatusOf(r) = "NONE"
    BY <1>4, <2>1 DEF Unused, Present, EventCode
  <2>3. requests'[r].status \in {"EXPORTED", "ERROR"}
    BY <1>11 DEF NewRow
  <2> QED BY <1>5, <2>2, <2>3 DEF Moves
<1>12. ASSUME NEW h \in Handler, At(h, "written"), Target(h) = r, Present(r),
              requests'[r] = ClosedRow(requests[r], tx[h].committed)
       PROVE  requests'[r].status = requests[r].status
                \/ Moves(StatusOf(r), StatusOf(r)')
  <2>1. requests[r].status # "ERROR"
    BY <1>1, <1>12 DEF HandlersKnow, MergersExported, Merging, At
  <2>2. requests'[r].status = "CLOSED"
    BY <1>1, <1>12, ClosedRowFacts
  <2> QED BY <1>4, <1>5, <1>6, <1>12, <2>1, <2>2 DEF Moves, Present
<1>13. CASE requests'[r] = NoRow
  <2>1. requests'[r].status = "NONE"
    BY <1>13 DEF NoRow
  <2>2. CASE events'["CREATED"][r] = 0
    <3>1. events["CREATED"][r] = 0
      BY <1>2, <2>2
    <3> QED BY <1>4, <1>5, <1>7, <2>1, <2>2, <3>1
  <2>3. CASE events'["CREATED"][r] # 0 /\ events["CREATED"][r] # 0
    BY <1>4, <1>5, <1>6, <2>1, <2>3 DEF Moves
  <2>4. CASE events'["CREATED"][r] # 0 /\ events["CREATED"][r] = 0
    BY <1>2, <2>1, <2>4
  <2> QED BY <2>2, <2>3, <2>4
<1>14. ASSUME NEW input \in Map, requests'[r] = EditedRow(requests[r], input)
       PROVE  requests'[r].status = requests[r].status
  BY <1>1, <1>14, EditedRowFacts
<1> QED BY <1>1, <1>10, <1>11, <1>12, <1>13, <1>14 DEF RowStep

\* A step changes the status of one request at most: that of its handler.
LEMMA OneStatus ==
  ASSUME Inv, [Next]_vars
  PROVE  \/ StatusMap' = StatusMap
         \/ \E h \in Handler : \A r \in RequestId :
              r # Target(h) => StatusOf(r)' = StatusOf(r)
<1>1. TypeOK
  BY DEF Inv
<1>2. CASE Developer \/ UNCHANGED vars
  BY <1>2 DEF Developer, vars, StatusMap, StatusOf, Present
<1>3. ASSUME NEW h \in Handler, Begin(h) \/ Continue(h) \/ Abort(h)
      PROVE  \A r \in RequestId : r # Target(h) => StatusOf(r)' = StatusOf(r)
  <2>1. \A r \in RequestId : r # Target(h) =>
          /\ requests'[r] = requests[r]
          /\ events'["CREATED"][r] = events["CREATED"][r]
    BY <1>1, <1>3, Frame DEF EventCode
  <2> QED BY <2>1 DEF StatusOf, Present
<1> QED BY <1>2, <1>3 DEF Next

\* Every step is a step of the lifecycle or a stutter.
LEMMA LifecycleStep ==
  ASSUME Inv, [Next]_vars
  PROVE  [Lifecycle!LifecycleNext]_StatusMap
<1>1. CASE StatusMap' = StatusMap
  BY <1>1
<1>2. ASSUME NEW h \in Handler,
             \A r \in RequestId : r # Target(h) => StatusOf(r)' = StatusOf(r),
             StatusMap' # StatusMap
      PROVE  Lifecycle!LifecycleNext
  <2>1. PICK r \in RequestId : StatusOf(r)' # StatusOf(r)
    BY <1>2 DEF StatusMap
  <2>2. \A q \in RequestId : q # r => StatusOf(q)' = StatusOf(q)
    BY <1>2, <2>1
  <2>3. Moves(StatusOf(r), StatusOf(r)')
    BY <2>1, StatusMoves
  <2>4. StatusMap' = [StatusMap EXCEPT ![r] = StatusOf(r)']
    BY <2>2 DEF StatusMap
  <2>5. StatusMap[r] = StatusOf(r)
    BY DEF StatusMap
  <2>6. CASE StatusOf(r) = "NONE" /\ StatusOf(r)' \in {"EXPORTED", "ERROR"}
    <3>1. Lifecycle!Create(r)
      BY <2>4, <2>5, <2>6 DEF Lifecycle!Create, Lifecycle!Become, StatusMap
    <3> QED BY <3>1 DEF Lifecycle!LifecycleNext
  <2>7. CASE StatusOf(r) = "EXPORTED" /\ StatusOf(r)' = "CLOSED"
    <3>1. Lifecycle!Close(r)
      BY <2>4, <2>5, <2>7 DEF Lifecycle!Close, Lifecycle!Become, StatusMap
    <3> QED BY <3>1 DEF Lifecycle!LifecycleNext
  <2>8. CASE StatusOf(r) \in {"EXPORTED", "ERROR", "CLOSED"} /\ StatusOf(r)' = "DELETED"
    <3>1. Lifecycle!Delete(r)
      BY <2>4, <2>5, <2>8 DEF Lifecycle!Delete, Lifecycle!Become, StatusMap
    <3> QED BY <3>1 DEF Lifecycle!LifecycleNext
  <2> QED BY <2>3, <2>6, <2>7, <2>8 DEF Moves
<1> QED BY <1>1, <1>2, OneStatus

\* The service implements the abstract lifecycle: whatever the handlers interleave,
\* a stale check never reopens, revives or closes in error a request.
THEOREM Refinement == Spec => ImplementsLifecycle
<1>1. Init => Lifecycle!LifecycleInit
  BY DEF Init, Lifecycle!LifecycleInit, StatusOf, Present, NoRow, EventCode
<1>2. Inv /\ [Next]_vars => [Lifecycle!LifecycleNext]_StatusMap
  BY LifecycleStep
<1> QED BY <1>1, <1>2, Invariance, PTL
        DEF Spec, ImplementsLifecycle, Lifecycle!LifecycleSpec, StatusMap

-----------------------------------------------------------------------------
(* What a merge does to the source: the labels it brings and the keys it   *)
(* leaves alone.                                                           *)

\* A handler that has written to the source has just done so, or had before.
LEMMA WrittenStep ==
  ASSUME TypeOK, [Next]_vars, NEW g \in Handler, At(g, "written")'
  PROVE  tx'[g] = tx[g] \/ CommitSource(g)
<1>1. CASE Developer \/ UNCHANGED vars
  BY <1>1 DEF Developer, vars
<1>2. ASSUME NEW h \in Handler, Begin(h) \/ Continue(h) \/ Abort(h), g # h
      PROVE  tx'[g] = tx[g]
  BY <1>2, Frame
<1>3. ~Begin(g) /\ ~Abort(g)
  BY BeginLocal, AbortLocal DEF At
<1>4. ASSUME Continue(g) PROVE CommitSource(g)
  <2> USE DEF Advance, At
  <2>1. tx[g] \in Tx /\ tx \in [Handler -> Tx]
    BY DEF TypeOK
  <2>2. ~Export(g)
    <3>1. SUFFICES ASSUME NEW n, NEW d,
                          tx'[g] = [tx[g] EXCEPT !.step = "exported", !.read = n,
                                                 !.diff = d]
                   PROVE  FALSE
      BY <2>1 DEF Export
    <3> QED BY <2>1, <3>1 DEF Tx
  <2>3. ~LoadEntries(g)
    <3>1. SUFFICES ASSUME NEW found,
                          tx'[g] = [tx[g] EXCEPT !.step = "writing", !.rows = found]
                   PROVE  FALSE
      BY <2>1 DEF LoadEntries
    <3> QED BY <2>1, <3>1 DEF Tx
  <2>4. ~LoadDiff(g) /\ ~LoadValues(g)
    <3>1. SUFFICES ASSUME LoadDiff(g) \/ LoadValues(g)  PROVE FALSE
      OBVIOUS
    <3>2. PICK d, keys : Loads(g, d, keys)
      BY <3>1, LoadsLocal
    <3> QED BY <2>1, <3>2 DEF Loads, Tx
  <2>5. ~ExportFails(g) /\ ~ReadMap(g) /\ ~Checkout(g)
    <3>1. SUFFICES ASSUME NEW n,
                          \/ tx'[g] = [tx[g] EXCEPT !.step = "failed"]
                          \/ tx'[g] = [tx[g] EXCEPT !.step = "mapRead", !.read = n]
                          \/ tx'[g] = [tx[g] EXCEPT !.step = "checkedOut",
                                                    !.checkout = n]
                   PROVE  FALSE
      BY <2>1 DEF ExportFails, ReadMap, Checkout
    <3> QED BY <2>1, <3>1 DEF Tx
  <2>6. ~CommitCreate(g) /\ ~CommitEdits(g) /\ ~CommitMerge(g) /\ ~CommitDelete(g)
    BY <2>1 DEF CommitCreate, CommitEdits, CommitMerge, CommitDelete, End, Idle
  <2> QED BY <1>4, <2>2, <2>3, <2>4, <2>5, <2>6 DEF Continue
<1> QED BY <1>1, <1>2, <1>3, <1>4 DEF Next

\* What the commit of a merge starts from, and what it leaves in its local state.
LEMMA CommitSourceLocal ==
  ASSUME TypeOK, HandlersKnow, NEW g \in Handler, CommitSource(g)
  PROVE  /\ tx[g].step = "checkedOut"
         /\ tx[g].read \in 1 .. Latest
         /\ tx[g].checkout \in 1 .. Latest
         /\ tx[g].diff \in Diffs
         /\ MergedMap(g) \in Map
         /\ Target(g) \in Author
         /\ tx'[g].read = tx[g].read
         /\ tx'[g].checkout = tx[g].checkout
         /\ tx'[g].diff = tx[g].diff
         /\ \/ /\ CommitRevision(MergedMap(g), tx[g].checkout, Target(g))
               /\ tx'[g].committed = Latest + 1
            \/ /\ CommitNothing(MergedMap(g), tx[g].checkout)
               /\ tx'[g].committed = NoRevision
<1>1. tx[g] \in Tx /\ tx \in [Handler -> Tx] /\ tx[g].step = "checkedOut"
  BY DEF TypeOK, CommitSource, At
<1>2. /\ tx[g].read \in 1 .. Latest
      /\ tx[g].checkout \in 1 .. Latest
      /\ tx[g].diff \in Diffs
      /\ Target(g) \in Author
  BY <1>1, TargetType DEF HandlersKnow, RevisionsExist, Tx, RequestId, At
<1>3. MergedMap(g) \in Map
  BY <1>2, MapAtType, ApplyDiffType DEF MergedMap, TypeOK
<1>4. ASSUME NEW n, tx' = [tx EXCEPT ![g] = [tx[g] EXCEPT !.step = "written",
                                                          !.committed = n]]
      PROVE  /\ tx'[g].read = tx[g].read
             /\ tx'[g].checkout = tx[g].checkout
             /\ tx'[g].diff = tx[g].diff
             /\ tx'[g].committed = n
  BY <1>1, <1>4 DEF Tx
<1>5. \/ /\ CommitRevision(MergedMap(g), tx[g].checkout, Target(g))
         /\ tx' = [tx EXCEPT ![g] = [tx[g] EXCEPT !.step = "written",
                                                  !.committed = Latest + 1]]
      \/ /\ CommitNothing(MergedMap(g), tx[g].checkout)
         /\ tx' = [tx EXCEPT ![g] = [tx[g] EXCEPT !.step = "written",
                                                  !.committed = NoRevision]]
  BY DEF CommitSource, Advance
<1> QED BY <1>1, <1>2, <1>3, <1>4, <1>5

-----------------------------------------------------------------------------
\* Every step keeps MergedLabelsReachedSource.
LEMMA MergedLabelsStep ==
  ASSUME Inv, MergedLabelsReachedSource, [Next]_vars
  PROVE  MergedLabelsReachedSource'
<1>1. TypeOK /\ HandlersKnow /\ SourceTypeOK /\ Latest \in Nat
  BY LatestType DEF Inv, TypeOK
<1>2. HistoryKept /\ SourceTypeOK'
  BY StepType DEF Inv, TypeOK
<1> SUFFICES ASSUME NEW g \in Handler, At(g, "written")',
                    NEW k \in Key, NEW l \in GroupLocales[BundleOf[k]],
                    AsMap(tx'[g].diff)[k][l] # NoValue
             PROVE  \E v \in tx'[g].checkout .. Latest' :
                      /\ v <= tx'[g].committed \/ v = tx'[g].checkout
                      /\ repo'[v].map[k][l] = AsMap(tx'[g].diff)[k][l]
  BY DEF MergedLabelsReachedSource, MapAt
<1>3. ASSUME NEW from \in 1 .. Latest, NEW v \in from .. Latest
      PROVE  v \in from .. Latest' /\ repo'[v].map = MapAt(v)
  <2>1. v \in 1 .. Latest
    BY <1>1
  <2>2. v \in 1 .. Latest' /\ repo'[v] = repo[v]
    BY <1>1, <1>2, <2>1, HistoryFacts
  <2> QED BY <2>2 DEF MapAt
<1>4. CASE tx'[g] = tx[g]
  <2>1. At(g, "written") /\ tx[g].checkout \in 1 .. Latest
    BY <1>1, <1>4 DEF At, HandlersKnow, RevisionsExist
  <2>2. PICK v \in tx[g].checkout .. Latest :
               /\ v <= tx[g].committed \/ v = tx[g].checkout
               /\ MapAt(v)[k][l] = AsMap(tx[g].diff)[k][l]
    BY <1>4, <2>1 DEF MergedLabelsReachedSource
  <2> QED BY <1>3, <1>4, <2>1, <2>2
<1>5. CASE CommitSource(g)
  <2> DEFINE m    == MergedMap(g)
             base == tx[g].checkout
             label == AsMap(tx[g].diff)[k][l]
  <2>1. /\ base \in 1 .. Latest
        /\ tx[g].diff \in Diffs
        /\ tx'[g].checkout = base
        /\ tx'[g].diff = tx[g].diff
        /\ m \in Map
        /\ Target(g) \in Author
        /\ \/ CommitRevision(m, base, Target(g)) /\ tx'[g].committed = Latest + 1
           \/ CommitNothing(m, base) /\ tx'[g].committed = NoRevision
    BY <1>1, <1>5, CommitSourceLocal
  <2>2. m[k][l] = label /\ label # NoValue
    <3>1. l \in Locale
      OBVIOUS
    <3> QED BY <1>1, <1>5, <2>1, <3>1, AppliedLabel, CommitSourceLocal, MapAtType
            DEF MergedMap
  <2> HIDE DEF m
  <2>3. CASE MapAt(base)[k][l] = label
    <3>1. base \in base .. Latest
      BY <1>1, <2>1
    <3> QED BY <1>3, <2>1, <2>3, <3>1
  <2>4. CASE /\ CommitRevision(m, base, Target(g))
             /\ Latest' = Latest + 1
             /\ repo'[Latest + 1].map[k][l] = label
    <3>1. Latest + 1 \in base .. Latest' /\ tx'[g].committed = Latest + 1
      BY <1>1, <2>1, <2>4 DEF CommitNothing, CommitRevision
    <3> QED BY <1>1, <2>1, <2>4, <3>1
  <2> QED BY <1>1, <2>1, <2>2, <2>3, <2>4, CommitBringsLabels
<1> QED BY <1>1, <1>4, <1>5, WrittenStep

\* Every label of a merged diff was committed by the merge, or found in the checkout
\* it wrote into.
THEOREM MergedLabels == Spec => []MergedLabelsReachedSource
<1>1. Init => MergedLabelsReachedSource
  BY DEF Init, MergedLabelsReachedSource, At, Idle
<1>2. Inv /\ MergedLabelsReachedSource /\ [Next]_vars => MergedLabelsReachedSource'
  BY MergedLabelsStep
<1> QED BY <1>1, <1>2, Invariance, PTL DEF Spec

-----------------------------------------------------------------------------
\* The repository grows by one revision at most.
LEMMA OneRevision ==
  ASSUME Inv, [Next]_vars
  PROVE  Latest' \in {Latest, Latest + 1}
<1>1. TypeOK /\ HandlersKnow /\ SourceTypeOK
  BY DEF Inv, TypeOK
<1>2. CASE UNCHANGED repo
  BY <1>2 DEF Latest
<1>3. CASE Developer \/ UNCHANGED vars
  BY <1>1, <1>2, <1>3, DeveloperCommitType DEF Developer, vars
<1>4. ASSUME NEW h \in Handler, Begin(h) \/ Abort(h)
      PROVE  UNCHANGED repo
  BY <1>1, <1>4, BeginLocal, AbortLocal
<1>5. ASSUME NEW h \in Handler, Continue(h)
      PROVE  Latest' \in {Latest, Latest + 1}
  <2>1. CASE CommitSource(h)
    BY <1>1, <1>2, <2>1, CommitSourceLocal, CommitRevisionType DEF CommitNothing
  <2> QED BY <1>2, <1>5, <2>1
          DEF Continue, Export, ExportFails, CommitCreate, LoadEntries, CommitEdits,
              ReadMap, LoadDiff, LoadValues, Checkout, CommitMerge, CommitDelete
<1> QED BY <1>2, <1>3, <1>4, <1>5 DEF Next

\* A file no revision touched between two of them is the same in both.
LEMMA UntouchedFiles == Spec => []UntouchedFilesAreKept
<1>1. Init => UntouchedFilesAreKept
  BY UntouchedFilesInit DEF Init
<1>2. Inv /\ UntouchedFilesAreKept /\ [Next]_vars => UntouchedFilesAreKept'
  BY OneRevision, StepType, UntouchedFilesStep DEF Inv, TypeOK
<1> QED BY <1>1, <1>2, Invariance, PTL DEF Spec

-----------------------------------------------------------------------------
\* A diff brings nothing to a key it does not hold.
LEMMA OtherKeys ==
  ASSUME NEW m \in Map, NEW d \in Diffs, NEW k \in Key \ KeysOf(d), NEW l \in Locale
  PROVE  ApplyDiff(m, d)[k][l] = m[k][l]
  BY DEF KeysOf, ApplyDiff, Merge, Without, AsMap, Editable

\* Every step keeps MergeTouchesOnlyItsKeys.
LEMMA OtherKeysStep ==
  ASSUME Inv, UntouchedFilesAreKept, MergeTouchesOnlyItsKeys, [Next]_vars
  PROVE  MergeTouchesOnlyItsKeys'
<1>1. /\ TypeOK /\ HandlersKnow /\ SourceTypeOK
      /\ Latest \in Nat \ {0}
      /\ LatestMap \in Map
  BY LatestType, MapAtType DEF Inv, TypeOK, LatestMap
<1>2. HistoryKept /\ SourceTypeOK'
  BY StepType DEF Inv, TypeOK
<1> SUFFICES ASSUME NEW g \in Handler, At(g, "written")',
                    tx'[g].committed # NoRevision, tx'[g].read = tx'[g].checkout,
                    NEW k \in Key \ KeysOf(tx'[g].diff)
             PROVE  repo'[tx'[g].committed].map[k] = repo'[tx'[g].committed - 1].map[k]
  BY DEF MergeTouchesOnlyItsKeys, MapAt
<1>3. CASE tx'[g] = tx[g]
  <2> DEFINE n == tx[g].committed
  <2>5. /\ At(g, "written")
        /\ tx[g].checkout \in 1 .. Latest
        /\ n \in tx[g].checkout + 1 .. Latest
    BY <1>1, <1>3 DEF At, HandlersKnow, RevisionsExist
  <2>1. At(g, "written") /\ n \in 1 .. Latest
    BY <1>1, <2>5
  <2>2. MapAt(n)[k] = MapAt(n - 1)[k]
    BY <1>3, <2>1 DEF MergeTouchesOnlyItsKeys
  <2>3. n - 1 \in 1 .. Latest
    BY <1>1, <2>5
  <2>4. repo'[n] = repo[n] /\ repo'[n - 1] = repo[n - 1]
    BY <1>1, <1>2, <2>1, <2>3, HistoryFacts
  <2> QED BY <1>3, <2>2, <2>4 DEF MapAt
<1>4. CASE CommitSource(g)
  <2> DEFINE m    == MergedMap(g)
             base == tx[g].checkout
  <2>1. /\ base \in 1 .. Latest
        /\ MapAt(base) \in Map
        /\ tx[g].diff \in Diffs
        /\ tx[g].read = base
        /\ k \in Key \ KeysOf(tx[g].diff)
        /\ m \in Map
        /\ Target(g) \in Author
        /\ CommitRevision(m, base, Target(g))
        /\ tx'[g].committed = Latest + 1
    BY <1>1, <1>4, CommitSourceLocal, MapAtType
  <2>2. \A l \in Locale : m[k][l] = MapAt(base)[k][l]
    BY <2>1, OtherKeys DEF MergedMap
  <2> HIDE DEF m
  <2>3. /\ \A l \in Locale : repo'[Latest + 1].map[k][l] = LatestMap[k][l]
        /\ repo'[Latest].map = LatestMap
    <3>1. ASSUME NEW l \in Locale
          PROVE  /\ repo'[Latest + 1].map[k][l] = LatestMap[k][l]
                 /\ repo'[Latest].map = LatestMap
      BY <1>1, <2>1, <2>2, CommitKeepsOthers
    <3> QED BY <3>1
  <2>4. Latest' = Latest + 1 /\ repo'[Latest + 1].map \in Map
    <3>1. Latest' = Latest + 1
      BY <1>1, <2>1, CommitRevisionType
    <3>2. repo' \in Seq(Revision) /\ Len(repo') = Latest + 1
      BY <1>2, <3>1 DEF SourceTypeOK, Latest
    <3>3. Latest + 1 \in 1 .. Len(repo')
      BY <1>1, <3>2
    <3>4. repo'[Latest + 1] \in Revision
      BY <3>2, <3>3
    <3> QED BY <3>1, <3>4 DEF Revision
  <2>5. repo'[Latest + 1].map[k] = LatestMap[k]
    BY <1>1, <2>3, <2>4 DEF Map, Labels
  <2>6. tx'[g].committed - 1 = Latest
    BY <1>1, <2>1
  <2> QED BY <2>1, <2>3, <2>5, <2>6
<1> QED BY <1>1, <1>3, <1>4, WrittenStep

\* A merge that nothing overtook between its two checkouts changes the keys of its
\* diff only, although it writes whole files under the commits of others.
THEOREM OtherKeysKept == Spec => []MergeTouchesOnlyItsKeys
<1>1. Init => MergeTouchesOnlyItsKeys
  <2>1. Init => \A h \in Handler : ~At(h, "written")
    BY DEF Init, At, Idle
  <2> QED BY <2>1 DEF MergeTouchesOnlyItsKeys
<1>2. Inv /\ UntouchedFilesAreKept /\ MergeTouchesOnlyItsKeys /\ [Next]_vars
        => MergeTouchesOnlyItsKeys'
  BY OtherKeysStep
<1> QED BY <1>1, <1>2, Invariance, UntouchedFiles, PTL DEF Spec

-----------------------------------------------------------------------------
\* The files the merge of a diff would send now.
SentAgain(d) == SentFiles(ApplyDiff(LatestMap, d), Latest)

\* While the head is the revision a merge committed, from a map nothing overtook,
\* merging the same diff once more would send nothing.
RetrySendsNothing ==
  \A h \in Handler :
    /\ At(h, "written")
    /\ tx[h].read = tx[h].checkout
    /\ tx[h].committed = tx[h].checkout + 1
    /\ Latest = tx[h].committed
    => SentAgain(tx[h].diff) = {}

\* Every step keeps RetrySendsNothing.
LEMMA RetryStep ==
  ASSUME Inv, RetrySendsNothing, [Next]_vars
  PROVE  RetrySendsNothing'
<1>1. /\ TypeOK /\ HandlersKnow /\ SourceTypeOK
      /\ Latest \in Nat \ {0}
      /\ LatestMap \in Map
  BY LatestType, MapAtType DEF Inv, TypeOK, LatestMap
<1>2. HistoryKept /\ SourceTypeOK' /\ Latest' \in {Latest, Latest + 1}
  BY StepType, OneRevision DEF Inv, TypeOK
<1> SUFFICES ASSUME NEW g \in Handler, At(g, "written")',
                    tx'[g].read = tx'[g].checkout,
                    tx'[g].committed = tx'[g].checkout + 1,
                    Latest' = tx'[g].committed,
                    NEW d, d = tx'[g].diff
             PROVE  SentAgain(d)' = {}
  BY DEF RetrySendsNothing, At, SentAgain, SentFiles, WorkingCopy
<1>3. CASE tx'[g] = tx[g]
  <2>1. /\ At(g, "written")
        /\ tx[g].checkout \in 1 .. Latest
        /\ tx[g].committed # NoRevision
    BY <1>1, <1>3 DEF At, HandlersKnow, RevisionsExist, NoRevision
  <2>2. tx[g].committed \in tx[g].checkout + 1 .. Latest
    BY <1>1, <2>1 DEF HandlersKnow, RevisionsExist
  <2>3. Latest = tx[g].committed /\ Latest' = Latest
    BY <1>1, <1>2, <1>3, <2>2
  <2>4. SentAgain(d) = {}
    BY <1>3, <2>1, <2>3 DEF RetrySendsNothing, SentAgain
  <2>5. MapAt(Latest)' = MapAt(Latest) /\ LatestMap' = LatestMap
    BY <1>1, <1>2, <2>3, HistoryFacts DEF MapAt, LatestMap
  <2> QED BY <2>3, <2>4, <2>5 DEF SentAgain, SentFiles, WorkingCopy
<1>4. CASE CommitSource(g)
  <2>1. /\ tx[g].checkout \in 1 .. Latest
        /\ d \in Diffs /\ d = tx[g].diff
        /\ tx[g].read = tx[g].checkout
        /\ Target(g) \in Author
        /\ CommitRevision(MergedMap(g), tx[g].checkout, Target(g))
        /\ tx'[g].committed = Latest + 1
        /\ tx'[g].checkout = tx[g].checkout
    <3>1. tx'[g].committed # NoRevision
      BY <1>1, <1>4, CommitSourceLocal DEF NoRevision
    <3> QED BY <1>1, <1>4, <3>1, CommitSourceLocal
  <2>2. tx[g].checkout = Latest
    BY <1>1, <2>1
  <2>3. MergedMap(g) = ApplyDiff(LatestMap, d)
    BY <2>1, <2>2 DEF MergedMap, LatestMap
  <2>4. \E a \in Author : CommitRevision(ApplyDiff(LatestMap, d), Latest, a)
    BY <2>1, <2>2, <2>3
  <2>5. PICK a \in Author : CommitRevision(ApplyDiff(LatestMap, d), Latest, a)
    BY <2>4
  <2> QED BY <1>1, <2>1, <2>5, RetriedMergeSendsNothing DEF SentAgain
<1> QED BY <1>1, <1>3, <1>4, WrittenStep

\* A merge whose transaction is rolled back after its commit left the source in a
\* state where trying it again sends nothing, until somebody else commits or its
\* entries change: its second commit returns -1 (RequestServiceImpl 454-458).
THEOREM RetriesSendNothing == Spec => []RetrySendsNothing
<1>1. Init => RetrySendsNothing
  <2>1. Init => \A h \in Handler : ~At(h, "written")
    BY DEF Init, At, Idle
  <2> QED BY <2>1 DEF RetrySendsNothing
<1>2. Inv /\ RetrySendsNothing /\ [Next]_vars => RetrySendsNothing'
  BY RetryStep
<1> QED BY <1>1, <1>2, Invariance, PTL DEF Spec
==============================================================================
