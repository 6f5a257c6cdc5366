---------------------------- MODULE RequestService ----------------------------
(***************************************************************************)
(* Translation requests of one branch: RequestServiceImpl over the request *)
(* tables and the translation source.  Each operation is an HTTP request   *)
(* handled by one thread in one READ COMMITTED transaction.  No operation  *)
(* locks the request it checked: other handlers commit between the reads   *)
(* of a handler, its accesses to the source and its own commit.  What a    *)
(* transaction writes shows to the others when it commits; the source      *)
(* takes no part in the transaction.                                       *)
(*                                                                         *)
(* An operation that is refused (status, entry, grant) changes nothing and *)
(* has no action; the users of the model hold every grant.                 *)
(***************************************************************************)
EXTENDS TranslationSource

CONSTANTS
  Handler,        \* threads that serve HTTP requests
  MaxRequest,     \* bound on the number of requests created
  Editions,       \* <<key, locale, value>> a user may enter
  Responses       \* labels the uploaded response files may hold

ASSUME ServiceAssumption ==
  /\ MaxRequest \in Nat
  /\ Author = 1 .. MaxRequest
  /\ Editions \subseteq Key \X Locale \X Value
  /\ Responses \subseteq Map \ {EmptyMap}

VARIABLES
  requests,       \* committed rows of REQUEST and its entries, per request id
  nextId,         \* auto-increment of REQUEST, not undone by a rollback
  events,         \* number of rows of EVENT written per code and request, those
                  \* whose reference a deletion cleared included
  tx              \* progress of each handler

vars == <<repo, requests, nextId, events, tx>>

RequestId == 1 .. MaxRequest
Version   == 1 .. MaxRevision

NoVersion == 0
Row == [status : {"NONE", "EXPORTED", "ERROR", "CLOSED"},
        version : {NoVersion} \cup Version,     \* VERSION, the older one
        to : {NoVersion} \cup Nat,              \* TOVERSION
        merge : {NoVersion, NoRevision} \cup Nat,    \* MERGEVERSION
        entries : Diffs]
NoRow == [status |-> "NONE", version |-> NoVersion, to |-> NoVersion,
          merge |-> NoVersion, entries |-> NoDiff]

EventCode == {"CREATED", "DELETED", "MERGED"}

Step == {"idle", "creating", "exported", "failed", "editing", "writing",
         "merging", "mapRead", "diffLoaded", "checkedOut", "written", "deleting"}

\* The local variables of the handlers, a null for each one not in use.
Tx == [step : Step,
       request : {0} \cup RequestId,
       version : {NoVersion} \cup Version,      \* form.version of a creation
       read : Nat,                \* revision of the map read at the head
       checkout : Nat,            \* revision of the checkout of a write
       committed : {NoVersion, NoRevision} \cup Nat,   \* what the commit returned
       diff : Diffs,              \* diff computed, or loaded from the database
       left : SUBSET Key,         \* entries whose values are still to be loaded
       input : Map,               \* labels to write into the entries
       rows : [Key -> SUBSET Locale]]     \* entry values found before writing

Idle == [step |-> "idle", request |-> 0, version |-> NoVersion, read |-> 0,
         checkout |-> 0, committed |-> NoVersion, diff |-> NoDiff, left |-> {},
         input |-> EmptyMap, rows |-> [k \in Key |-> {}]]

TypeOK == /\ SourceTypeOK
          /\ requests \in [RequestId -> Row]
          /\ nextId \in 1 .. MaxRequest + 1
          /\ events \in [EventCode -> [RequestId -> Nat]]
          /\ tx \in [Handler -> Tx]

Init == /\ SourceInit
        /\ requests = [r \in RequestId |-> NoRow]
        /\ nextId = 1
        /\ events = [c \in EventCode |-> [r \in RequestId |-> 0]]
        /\ tx = [h \in Handler |-> Idle]

-----------------------------------------------------------------------------
At(h, step) == tx[h].step = step
Target(h)   == tx[h].request
Exported(r) == requests[r].status = "EXPORTED"
Present(r)  == requests[r].status # "NONE"

Advance(h, local) == tx' = [tx EXCEPT ![h] = local]
End(h)            == Advance(h, Idle)
Event(code, r)    == events' = [events EXCEPT ![code][r] = @ + 1]

-----------------------------------------------------------------------------
(* createRequest: the row is inserted, the source is read twice, the diff and
   the final status are saved and all of it commits at once.                 *)

\* Mutant: the id follows the one of the last committed row.
BeginCreateWithoutSequence(h, v) ==
  /\ At(h, "idle")
  /\ nextId \in RequestId
  /\ nextId' = IF Present(nextId) THEN nextId + 1 ELSE nextId
  /\ Advance(h, [Idle EXCEPT !.step = "creating", !.request = nextId,
                             !.version = v])
  /\ UNCHANGED <<repo, requests, events>>

BeginCreate(h, v) ==
  /\ At(h, "idle")
  /\ nextId \in RequestId
  /\ nextId' = nextId + 1
  /\ Advance(h, [Idle EXCEPT !.step = "creating", !.request = nextId,
                             !.version = v])
  /\ UNCHANGED <<repo, requests, events>>

\* launchCreation reads the map of the version and the map of the head.
Export(h) ==
  /\ At(h, "creating")
  /\ tx[h].version <= Latest
  /\ Advance(h, [tx[h] EXCEPT !.step = "exported", !.read = Latest,
                              !.diff = Diff(MapAt(tx[h].version), LatestMap)])
  /\ UNCHANGED <<repo, requests, nextId, events>>

\* The version is unknown, or the source cannot be read.
ExportFails(h) ==
  /\ At(h, "creating")
  /\ Advance(h, [tx[h] EXCEPT !.step = "failed"])
  /\ UNCHANGED <<repo, requests, nextId, events>>

\* Mutant: the creation commits before it is launched.
NewRowBeforeLaunch(h) ==
  [status  |-> "CREATED",
   version |-> tx[h].version,
   to      |-> tx[h].read,
   merge   |-> NoVersion,
   entries |-> tx[h].diff]

\* Mutant: TOVERSION is the head when the diff is saved, not the map it was made of.
NewRowToHead(h) ==
  [status  |-> IF At(h, "exported") THEN "EXPORTED" ELSE "ERROR",
   version |-> tx[h].version,
   to      |-> Latest,
   merge   |-> NoVersion,
   entries |-> tx[h].diff]

NewRow(h) ==
  [status  |-> IF At(h, "exported") THEN "EXPORTED" ELSE "ERROR",
   version |-> tx[h].version,
   to      |-> tx[h].read,
   merge   |-> NoVersion,
   entries |-> tx[h].diff]

CommitCreate(h) ==
  /\ At(h, "exported") \/ At(h, "failed")
  /\ requests' = [requests EXCEPT ![Target(h)] = NewRow(h)]
  /\ Event("CREATED", Target(h))
  /\ End(h)
  /\ UNCHANGED <<repo, nextId>>

-----------------------------------------------------------------------------
(* editRequestEntry and uploadRequest: the status is checked, the entries are
   loaded, and their values are updated or inserted.                         *)

InputKeys(h) == {k \in Key : tx[h].input[k] # NoLabels}
InputLocales(h, k) == {l \in Locale : tx[h].input[k][l] # NoValue}

BeginEdit(h, r, k, l, v) ==
  /\ At(h, "idle")
  /\ Exported(r)
  /\ Editable(requests[r].entries[k])
  /\ Advance(h, [Idle EXCEPT !.step = "editing", !.request = r,
                             !.input[k][l] = v])
  /\ UNCHANGED <<repo, requests, nextId, events>>

\* An upload checks the status of the request, not the type of its entries.
BeginUpload(h, r, response) ==
  /\ At(h, "idle")
  /\ Exported(r)
  /\ Advance(h, [Idle EXCEPT !.step = "editing", !.request = r,
                             !.input = response])
  /\ UNCHANGED <<repo, requests, nextId, events>>

\* Every key must have its entry in the request.  The values come entry by entry; as
\* rows are only added, or all deleted, those found with the last entry stand for them.
LoadEntries(h) ==
  /\ At(h, "editing")
  /\ InputKeys(h) \subseteq KeysOf(requests[Target(h)].entries)
  /\ Advance(h, [tx[h] EXCEPT
                   !.step = "writing",
                   !.rows = [k \in Key |-> requests[Target(h)].entries[k].rows]])
  /\ UNCHANGED <<repo, requests, nextId, events>>

\* An insertion fails on a row another handler inserted meanwhile, or on an
\* entry that was deleted; the update of a row that was deleted changes nothing.
CanWrite(h) ==
  \A k \in InputKeys(h) :
    /\ requests[Target(h)].entries[k].type # "NONE"
    /\ (InputLocales(h, k) \ tx[h].rows[k])
         \cap requests[Target(h)].entries[k].rows = {}

CommitEdits(h) ==
  /\ At(h, "writing")
  /\ CanWrite(h)
  /\ requests' = [requests EXCEPT ![Target(h)].entries =
                    [k \in Key |-> Edited(@[k], tx[h].input[k])]]
  /\ End(h)
  /\ UNCHANGED <<repo, nextId, events>>

-----------------------------------------------------------------------------
(* mergeRequest: the status is checked, the map of the head is read, the diff
   is loaded and applied, the result is written to the source, and at last the
   request is closed in the database.                                        *)

\* Mutant: a merge does not check the status of the request.
BeginMergeUnchecked(h, r) ==
  /\ At(h, "idle")
  /\ Present(r)
  /\ Advance(h, [Idle EXCEPT !.step = "merging", !.request = r])
  /\ UNCHANGED <<repo, requests, nextId, events>>

BeginMerge(h, r) ==
  /\ At(h, "idle")
  /\ Exported(r)
  /\ Advance(h, [Idle EXCEPT !.step = "merging", !.request = r])
  /\ UNCHANGED <<repo, requests, nextId, events>>

ReadMap(h) ==
  /\ At(h, "merging")
  /\ Advance(h, [tx[h] EXCEPT !.step = "mapRead", !.read = Latest])
  /\ UNCHANGED <<repo, requests, nextId, events>>

\* One query for the entries, then one for the values of each of them.
LoadDiff(h) ==
  /\ At(h, "mapRead")
  /\ LET entries == requests[Target(h)].entries
     IN  Advance(h, [tx[h] EXCEPT
                       !.step = "diffLoaded",
                       !.diff = [k \in Key |-> [NoEntry EXCEPT !.type = entries[k].type]],
                       !.left = KeysOf(entries)])
  /\ UNCHANGED <<repo, requests, nextId, events>>

\* In the order of the names; a deletion that commits in between leaves no values.
LoadValues(h) ==
  /\ At(h, "diffLoaded") /\ tx[h].left # {}
  /\ LET k == CHOOSE k \in tx[h].left : TRUE
         entry == requests[Target(h)].entries[k]
     IN  Advance(h, [tx[h] EXCEPT
                       !.diff[k] = [entry EXCEPT !.type = tx[h].diff[k].type],
                       !.left = @ \ {k}])
  /\ UNCHANGED <<repo, requests, nextId, events>>

\* write checks out the head again.
Checkout(h) ==
  /\ At(h, "diffLoaded") /\ tx[h].left = {}
  /\ Advance(h, [tx[h] EXCEPT !.step = "checkedOut", !.checkout = Latest])
  /\ UNCHANGED <<repo, requests, nextId, events>>

MergedMap(h) == ApplyDiff(MapAt(tx[h].read), tx[h].diff)

\* Mutant: a commit Subversion rejects is taken for one that changes nothing.
CommitSourceSwallowed(h) ==
  /\ At(h, "checkedOut")
  /\ \/ /\ CommitRevision(MergedMap(h), tx[h].checkout, Target(h))
        /\ Advance(h, [tx[h] EXCEPT !.step = "written", !.committed = Latest + 1])
     \/ /\ OutOfDate(SentFiles(MergedMap(h), tx[h].checkout), tx[h].checkout)
        /\ Advance(h, [tx[h] EXCEPT !.step = "written",
                                    !.committed = NoRevision])
        /\ UNCHANGED repo
  /\ UNCHANGED <<requests, nextId, events>>

CommitSource(h) ==
  /\ At(h, "checkedOut")
  /\ \/ /\ CommitRevision(MergedMap(h), tx[h].checkout, Target(h))
        /\ Advance(h, [tx[h] EXCEPT !.step = "written", !.committed = Latest + 1])
     \/ /\ CommitNothing(MergedMap(h), tx[h].checkout)
        /\ Advance(h, [tx[h] EXCEPT !.step = "written",
                                    !.committed = NoRevision])
  /\ UNCHANGED <<requests, nextId, events>>

\* Mutant: the row is written back although it was deleted meanwhile.
CommitMergeRevives(h) ==
  /\ At(h, "written")
  /\ requests' = [requests EXCEPT ![Target(h)].status = "CLOSED",
                                  ![Target(h)].merge = tx[h].committed]
  /\ Event("MERGED", Target(h))
  /\ End(h)
  /\ UNCHANGED <<repo, nextId>>

\* Mutant: the merge version is the head once the transaction ends.
CommitMergeAtHead(h) ==
  /\ At(h, "written")
  /\ Present(Target(h))
  /\ requests' = [requests EXCEPT ![Target(h)].status = "CLOSED",
                                  ![Target(h)].merge = Latest]
  /\ Event("MERGED", Target(h))
  /\ End(h)
  /\ UNCHANGED <<repo, nextId>>

\* The event refers to the request: without its row the transaction fails.
CommitMerge(h) ==
  /\ At(h, "written")
  /\ Present(Target(h))
  /\ requests' = [requests EXCEPT ![Target(h)].status = "CLOSED",
                                  ![Target(h)].merge = tx[h].committed]
  /\ Event("MERGED", Target(h))
  /\ End(h)
  /\ UNCHANGED <<repo, nextId>>

-----------------------------------------------------------------------------
(* deleteRequest: whatever the status, and whether or not the row is still
   there when the DELETE is executed.                                        *)

BeginDelete(h, r) ==
  /\ At(h, "idle")
  /\ Present(r)
  /\ Advance(h, [Idle EXCEPT !.step = "deleting", !.request = r])
  /\ UNCHANGED <<repo, requests, nextId, events>>

CommitDelete(h) ==
  /\ At(h, "deleting")
  /\ requests' = [requests EXCEPT ![Target(h)] = NoRow]
  /\ Event("DELETED", Target(h))
  /\ End(h)
  /\ UNCHANGED <<repo, nextId>>

-----------------------------------------------------------------------------
\* The transaction is rolled back: the source or the database is not available,
\* a commit is rejected, a constraint is violated, the server stops.
Abort(h) ==
  /\ ~At(h, "idle")
  /\ End(h)
  /\ UNCHANGED <<repo, requests, nextId, events>>

Developer == /\ \E m \in SourceMaps : DeveloperCommit(m)
             /\ UNCHANGED <<requests, nextId, events, tx>>

Begin(h) ==
  \/ \E v \in Version : BeginCreate(h, v)
  \/ \E r \in RequestId :
       \/ BeginMerge(h, r)
       \/ BeginDelete(h, r)
       \/ \E e \in Editions : BeginEdit(h, r, e[1], e[2], e[3])
       \/ \E response \in Responses : BeginUpload(h, r, response)

Continue(h) ==
  \/ Export(h) \/ ExportFails(h) \/ CommitCreate(h)
  \/ LoadEntries(h) \/ CommitEdits(h)
  \/ ReadMap(h) \/ LoadDiff(h) \/ LoadValues(h) \/ Checkout(h) \/ CommitSource(h) \/ CommitMerge(h)
  \/ CommitDelete(h)

Next == Developer \/ \E h \in Handler : Begin(h) \/ Continue(h) \/ Abort(h)

Spec == Init /\ [][Next]_vars

-----------------------------------------------------------------------------
(* What must hold whatever the handlers and the developers interleave. *)

StoresDiff(entries, diff) ==
  \A k \in Key : /\ entries[k].type = diff[k].type
                 /\ entries[k].old = diff[k].old
                 /\ diff[k].rows \subseteq entries[k].rows

\* The diff a request stores is the difference of the two revisions it names:
\* the type and the old values of each entry stay those of the export, through
\* the commits made to the source while it was computed (RequestServiceImpl
\* 158-166), the editions, the uploads and the merges.
ExportMatchesHistory ==
  \A r \in RequestId :
    requests[r].status \in {"EXPORTED", "CLOSED"} =>
      /\ requests[r].version \in 1 .. requests[r].to
      /\ requests[r].to <= Latest
      /\ StoresDiff(requests[r].entries,
                    Diff(MapAt(requests[r].version), MapAt(requests[r].to)))

\* The merge version a closed request shows (RequestServiceImpl 458) is a
\* revision one of its own merges committed, whatever was committed by others
\* before and after; a request that is not closed shows none, even when one of
\* its merges reached the source and was rolled back in the database.
MergeVersionIsOwnRevision ==
  \A r \in RequestId :
    /\ requests[r].status # "CLOSED" => requests[r].merge = NoVersion
    /\ requests[r].status = "CLOSED" /\ requests[r].merge # NoRevision =>
         /\ requests[r].merge \in 1 .. Latest
         /\ repo[requests[r].merge].by = r

\* The events tell the story of each request, although handlers crash, race and
\* roll back: created once if it ever existed, merged if it is closed, deleted
\* if and only if it is gone (RequestServiceImpl 115, 229, 462).
EventsTellTheStatus ==
  \A r \in RequestId :
    /\ events["CREATED"][r] \in {0, 1}
    /\ Present(r) <=> events["CREATED"][r] = 1 /\ events["DELETED"][r] = 0
    /\ requests[r].status = "CLOSED" => events["MERGED"][r] > 0
    /\ Present(r) /\ events["MERGED"][r] > 0 => requests[r].status = "CLOSED"

Creating(h) == tx[h].step \in {"creating", "exported", "failed"}

Unused(r) == ~Present(r) /\ \A c \in EventCode : events[c][r] = 0

FreshIds == \A r \in RequestId : r >= nextId => Unused(r)

TargetsAllocated ==
  \A h \in Handler : ~At(h, "idle") => Target(h) \in 1 .. nextId - 1

CreationsAlone ==
  \A h \in Handler : Creating(h) =>
    /\ tx[h].version \in Version
    /\ Unused(Target(h))
    /\ \A g \in Handler : Creating(g) /\ Target(g) = Target(h) => g = h

TargetsCreated ==
  \A h \in Handler : ~At(h, "idle") /\ ~Creating(h) =>
    events["CREATED"][Target(h)] = 1

RevisionsExist ==
  \A h \in Handler :
    /\ tx[h].step \in {"exported", "mapRead", "diffLoaded", "checkedOut", "written"} =>
         tx[h].read \in 1 .. Latest
    /\ tx[h].step \in {"checkedOut", "written"} => tx[h].checkout \in 1 .. Latest
    /\ At(h, "written") /\ tx[h].committed # NoRevision =>
         /\ tx[h].committed \in tx[h].checkout + 1 .. Latest
         /\ repo[tx[h].committed].by = Target(h)

ExportedDiffs ==
  \A h \in Handler : At(h, "exported") =>
    /\ tx[h].version <= tx[h].read
    /\ tx[h].diff = Diff(MapAt(tx[h].version), MapAt(tx[h].read))

Merging(h) == tx[h].step \in {"merging", "mapRead", "diffLoaded", "checkedOut", "written"}

MergersExported ==
  \A h \in Handler : Merging(h) => requests[Target(h)].status # "ERROR"

\* What a handler knows stays true while the others commit: it works on a request
\* id nobody else is creating, the revisions it read are revisions of the source,
\* the diff it computed is still the difference of its two revisions, and the
\* revision its commit returned is the one it wrote (no lock protects any of it).
HandlersKnow == /\ FreshIds
                /\ TargetsAllocated
                /\ CreationsAlone
                /\ TargetsCreated
                /\ RevisionsExist
                /\ ExportedDiffs
                /\ MergersExported

\* Once the source is written, each label the merge brings was the label of the
\* source at some revision from the checkout to the commit: it was committed, or
\* found there; a later commit may only have replaced it after that
\* (RequestServiceImpl 454-456).
MergedLabelsReachedSource ==
  \A h \in Handler : At(h, "written") =>
    \A k \in Key : \A l \in GroupLocales[BundleOf[k]] :
      AsMap(tx[h].diff)[k][l] # NoValue =>
        \E v \in tx[h].checkout .. Latest :
          /\ v <= tx[h].committed \/ v = tx[h].checkout
          /\ MapAt(v)[k][l] = AsMap(tx[h].diff)[k][l]

\* A merge that no commit overtook between its two checkouts changes in the
\* source the keys of its diff and no other one, although it writes whole files
\* and other files may be committed under it.
MergeTouchesOnlyItsKeys ==
  \A h \in Handler :
    At(h, "written") /\ tx[h].committed # NoRevision
      /\ tx[h].read = tx[h].checkout =>
        \A k \in Key \ KeysOf(tx[h].diff) :
          MapAt(tx[h].committed)[k] = MapAt(tx[h].committed - 1)[k]

-----------------------------------------------------------------------------
(* The service implements the lifecycle of RequestLifecycle. *)

StatusOf(r) == IF Present(r) \/ events["CREATED"][r] = 0
               THEN requests[r].status
               ELSE "DELETED"

Lifecycle == INSTANCE RequestLifecycle
               WITH status <- [r \in RequestId |-> StatusOf(r)]

\* Whatever the handlers interleave, the status of a request follows the
\* lifecycle: a stale status check never reopens a closed request, never closes
\* one that is in error and never brings a deleted one back.
ImplementsLifecycle == Lifecycle!LifecycleSpec

==============================================================================
